---- MODULE Spec2Model ----
(***************************************************************************)
(* A model of the SPAN Panel (eBus) integration: the sensor value          *)
(* formatter (sensor.py), the synchronization bridge SpanPanel             *)
(* (span_panel.py) with the transport thread and the owning event loop,    *)
(* the setup sequence with its readiness waits (__init__.py), the schema   *)
(* mapper (node_mappers.py), the select entity (select.py) and the         *)
(* link_subpanel service (services.py).                                    *)
(*                                                                         *)
(* The specifications share the variables:                                 *)
(*   SpecSensor   one SpanEbusSensor receiving wire values                 *)
(*   SpecBridge   one SpanPanel used through its public operations         *)
(*   SpecSetup    async_setup_entry / _wait_for_circuit_names / unload     *)
(*   SpecEntity   one entity added to and removed from a loaded bridge     *)
(*   SpecEntry    the config entry: setup, retry, unload, reload           *)
(*   SpecCommand  set_property during the life of the bridge               *)
(*   SpecService  link_subpanel against the device registry                *)
(*   SpecMapper   entities_from_description called on schema documents     *)
(*   SpecPlatform one sensor built from a mapped descriptor, then updated  *)
(*   SpecSelect   one SpanEbusSelect receiving wire values                 *)
(*   SpecFeed     a feed sensor while the names of the circuits arrive     *)
(*   SpecIdentity the bridge while a second panel publishes on the broker  *)
(*   SpecNameWait the wait for the circuit names, called on its own         *)
(*   SpecDetach   one entity removed before, while or after the bridge stops *)
(* A specification leaves the variables of the other parts unchanged.      *)
(***************************************************************************)
EXTENDS Integers, Sequences, FiniteSets, Bags, TLC

----------------------------------------------------------------------------
(* Bounds of the model *)

\* readings delivered to one sensor
MaxReadings == 3

\* unregister functions handed out by the register operations
MaxHandles == 2

\* calls waiting on the owning event loop (call_soon_threadsafe)
MaxQueue == 3

\* messages the transport thread delivers to a bridge used on its own
MaxTransport == 2

\* messages the transport thread delivers while an entry is set up
MaxMessages == 5

\* calls of set_property
MaxCommands == 2

\* successful calls of the link_subpanel service
MaxLinks == 3

\* nodes of a schema document handed to the mapper
MaxNodes == 2

----------------------------------------------------------------------------
(* const.py: the timeouts, in seconds *)

DESCRIPTION_TIMEOUT == 30
DEVICE_READY_TIMEOUT == 120
CIRCUIT_NAMES_TIMEOUT == 10
API_TIMEOUT == 15

\* a slip: the name wait is given the timeout of the ready wait, and the
\* ready wait that of the name wait
TimeoutOfSwapped(wait) ==
    CASE wait = "description_received" -> DESCRIPTION_TIMEOUT
      [] wait = "device_ready" -> CIRCUIT_NAMES_TIMEOUT
      [] wait = "circuit_names" -> DEVICE_READY_TIMEOUT
      [] wait = "api" -> API_TIMEOUT

\* the timeout each wait is started with: asyncio.wait_for(...) in
\* async_setup_entry, _wait_for_circuit_names(panel, ids, timeout), and
\* aiohttp.ClientTimeout(total=...) in the API client
TimeoutOf(wait) ==
    CASE wait = "description_received" -> DESCRIPTION_TIMEOUT
      [] wait = "device_ready" -> DEVICE_READY_TIMEOUT
      [] wait = "circuit_names" -> CIRCUIT_NAMES_TIMEOUT
      [] wait = "api" -> API_TIMEOUT

----------------------------------------------------------------------------
(* Vocabulary *)

None == "None"

\* wire values are strings; these are the ones the sensor model draws from
NumericWire == {"940.0", "950.0", "1000.0", "1050.0", "-542.3"}
TextWire == {"not-a-number", "c1", "c2"}
WireValues == NumericWire \cup TextWire

\* the characters of a wire string (TLC cannot index a string)
Chars(s) ==
    CASE s = "940.0" -> <<"9", "4", "0", ".", "0">>
      [] s = "950.0" -> <<"9", "5", "0", ".", "0">>
      [] s = "1000.0" -> <<"1", "0", "0", "0", ".", "0">>
      [] s = "1050.0" -> <<"1", "0", "5", "0", ".", "0">>
      [] s = "-542.3" -> <<"-", "5", "4", "2", ".", "3">>
      [] s = "not-a-number" ->
            <<"n", "o", "t", "-", "a", "-", "n", "u", "m", "b", "e", "r">>
      [] s = "c1" -> <<"c", "1">>
      [] s = "c2" -> <<"c", "2">>

Digits == <<"0", "1", "2", "3", "4", "5", "6", "7", "8", "9">>

IsDigit(c) == \E i \in 1..10 : Digits[i] = c

DigitVal(c) == (CHOOSE i \in 1..10 : Digits[i] = c) - 1

RECURSIVE DigitsVal(_)
DigitsVal(cs) ==
    IF cs = <<>> THEN 0
    ELSE DigitsVal(SubSeq(cs, 1, Len(cs) - 1)) * 10 + DigitVal(cs[Len(cs)])

\* float(value): a decimal literal with an optional sign and at most one
\* fractional digit parses to a number, held in tenths; anything else is a
\* ValueError.  The result is [ok, n].
ParseFloat(cs) ==
    LET neg == Len(cs) > 0 /\ cs[1] = "-"
        body == IF neg THEN Tail(cs) ELSE cs
        dots == {i \in 1..Len(body) : body[i] = "."}
        dot == IF dots = {} THEN Len(body) + 1
               ELSE CHOOSE i \in dots : \A j \in dots : i <= j
        ip == SubSeq(body, 1, dot - 1)
        fp == SubSeq(body, dot + 1, Len(body))
        wellformed == /\ Len(ip) + Len(fp) > 0
                      /\ Len(fp) <= 1
                      /\ \A i \in 1..Len(ip) : IsDigit(ip[i])
                      /\ \A i \in 1..Len(fp) : IsDigit(fp[i])
        mag == DigitsVal(ip) * 10 + DigitsVal(fp)
    IN  IF wellformed
        THEN [ok |-> TRUE, n |-> IF neg THEN 0 - mag ELSE mag]
        ELSE [ok |-> FALSE, n |-> 0]

\* values an entity can display
NoValue == [k |-> "none", n |-> 0, s |-> ""]
NumV(n) == [k |-> "num", n |-> n, s |-> ""]
StrV(s) == [k |-> "str", n |-> 0, s |-> s]

----------------------------------------------------------------------------
\* (node, property) keys of the bridge
Key(n) == <<n, "name">>
NameNodes == {"c1", "c2"}
Keys == {Key(n) : n \in NameNodes}
NoKey == <<"", "">>

\* the key of the entity of the model: circuit c1, property active-power
EntityKey == <<"c1", "active-power">>

\* the properties the device object holds
AllKeys == Keys \cup {EntityKey}

VARIABLES
    \* ---- SpanEbusSensor
    attr_device_class,      \* "energy" | "power" | "none"
    attr_state_class,       \* "total_increasing" | "measurement" | "none"
    spec_negate,            \* EntitySpec.negate
    property_id,            \* SpanEbusEntity._property_id
    attr_native_value,      \* _attr_native_value
    attr_extra_state_attributes, \* None or the circuit_id annotation
    log_warnings,           \* WARNING records of the entity module's logger
    delivered,              \* the wire values handed to _update_from_value
    \* ---- SpanPanel
    controller,             \* _controller: None or "ctrl"
    device,                 \* _device: None or "dev"
    available,              \* _available
    description_received,   \* asyncio.Event
    device_ready,           \* asyncio.Event
    property_callbacks,     \* _property_callbacks: key -> list, keys as set
    availability_callbacks, \* _availability_callbacks
    ready_callbacks,        \* _ready_callbacks
    \* ---- the transport (Controller, its thread, its DiscoveredDevice)
    transport_alive,        \* the paho-mqtt thread runs
    dev_state,              \* device.state, None while undiscovered
    dev_description,        \* device.description, None or a document
    dev_props,              \* device.get_property
    tpend,                  \* a property stored whose callback is due
    tcount,                 \* messages delivered so far
    \* ---- the owning event loop
    queue,                  \* calls scheduled by call_soon_threadsafe
    cur,                    \* the dispatch in progress
    \* ---- the callers of the bridge
    handles,                \* the unregister functions returned so far (a bag)
    phase,                  \* where the owner of the bridge is in its life
    \* ---- async_setup_entry and _wait_for_circuit_names
    pc,                     \* where the coroutine stands
    description,            \* the local description, None before it is read
    missing,                \* the list missing of the name wait
    idx,                    \* the position of the for loop running
    events,                 \* the node ids whose asyncio.Event is set
    names_ok,               \* what the name wait returned, None before
    result,                 \* None, "ok" (True) or "not_ready" (raised)
    mapped,                 \* entities_from_description has run
    registered,             \* the device registry holds the panel
    platforms,              \* the platforms have been forwarded
    warnings,               \* the WARNING records of the setup
    nw_before,              \* the subscribers of each key as the wait began
    \* ---- Home Assistant around the bridge
    ent_phase,              \* the entity: "constructed", "added", "removed"
    spec_source_property_id, \* the wire property of the descriptor, or None
    attr_unique_id,         \* _attr_unique_id, serial_node_property
    commands,               \* the set_property calls made and forwarded
    configured,             \* a config entry exists for the serial number
    leaked,                 \* bridges the entry dropped while still started
    \* ---- the schema mapper, the device registry, the other entity kinds
    schema_doc,             \* the description passed to the mapper
    entity_specs,           \* whether entities_from_description has
                            \* returned, and the list it returned
    entity_specs_again,     \* the same for a second call
    dev_reg,                \* the device registry of Home Assistant
    service_call,           \* the last link_subpanel call and what it raised
    attr_native_unit_of_measurement, \* of the sensor
    attr_options,           \* _attr_options of the select
    attr_current_option     \* _attr_current_option of the select

sensorVars == <<attr_device_class, attr_state_class, spec_negate, property_id,
                attr_native_value, attr_extra_state_attributes, log_warnings,
                delivered>>

panelVars == <<controller, device, available, description_received,
               device_ready, property_callbacks, availability_callbacks,
               ready_callbacks>>

transportVars == <<transport_alive, dev_state, dev_description, dev_props,
                   tpend, tcount>>

loopVars == <<queue, cur>>

callerVars == <<handles, phase>>

setupVars == <<pc, description, missing, idx, events, names_ok, result, mapped,
               registered, platforms, warnings, nw_before>>

hostVars == <<ent_phase, spec_source_property_id, attr_unique_id, commands,
              configured, leaked>>

toolVars == <<schema_doc, entity_specs, entity_specs_again, dev_reg,
              service_call, attr_native_unit_of_measurement, attr_options,
              attr_current_option>>

vars == <<sensorVars, panelVars, transportVars, loopVars, callerVars,
          setupVars, hostVars, toolVars>>

----------------------------------------------------------------------------
(* span_panel.py: the subscriber lists *)

EmptyMap == [k \in {} |-> <<>>]

InList(list, cb) == \E i \in 1..Len(list) : list[i] = cb

\* list.remove(cb): the first occurrence goes
RemoveFirst(list, cb) ==
    LET i == CHOOSE j \in 1..Len(list) :
                 list[j] = cb /\ \A m \in 1..(j - 1) : list[m] # cb
    IN  SubSeq(list, 1, i - 1) \o SubSeq(list, i + 1, Len(list))

\* _property_callbacks.get(key, [])
GetCallbacks(key) ==
    IF key \in DOMAIN property_callbacks THEN property_callbacks[key] ELSE <<>>

\* register_property_callback: setdefault(key, []).append(cb)
RegisterProperty(map, key, cb) ==
    [k \in DOMAIN map \cup {key} |->
        IF k = key
        THEN Append(IF key \in DOMAIN map THEN map[key] ELSE <<>>, cb)
        ELSE map[k]]

\* a slip: the closure drops the newest subscriber of the key, not its own
UnregisterPropertyPopsLast(map, key, cb) ==
    IF key \in DOMAIN map /\ map[key] # <<>> /\ InList(map[key], cb)
    THEN [map EXCEPT ![key] = SubSeq(@, 1, Len(@) - 1)]
    ELSE map

\* the unregister closure of register_property_callback
UnregisterProperty(map, key, cb) ==
    IF key \in DOMAIN map /\ map[key] # <<>> /\ InList(map[key], cb)
    THEN [map EXCEPT ![key] = RemoveFirst(@, cb)]
    ELSE map

\* register_availability_callback / register_ready_callback
RegisterList(list, cb) == Append(list, cb)

\* a slip: the closure empties the list once its callback is found in it
UnregisterListClears(list, cb) ==
    IF InList(list, cb) THEN <<>> ELSE list

\* their unregister closures
UnregisterList(list, cb) ==
    IF InList(list, cb) THEN RemoveFirst(list, cb) ELSE list

\* SpanPanel.__init__
PanelInit ==
    /\ controller = None
    /\ device = None
    /\ available = FALSE
    /\ description_received = FALSE
    /\ device_ready = FALSE
    /\ property_callbacks = EmptyMap
    /\ availability_callbacks = <<>>
    /\ ready_callbacks = <<>>

\* get_property_value
GetPropertyValue(key) == IF device = None THEN None ELSE dev_props[key]

----------------------------------------------------------------------------
(* the owning event loop *)

QItem(fn, key, value, flag) ==
    [fn |-> fn, key |-> key, value |-> value, flag |-> flag]

NoDispatch ==
    [kind |-> "none", key |-> NoKey, value |-> "", flag |-> FALSE,
     snap |-> <<>>, i |-> 0, errs |-> 0]

\* list(...) at the head of the three dispatch functions
Snapshot(item) ==
    CASE item.fn = "_dispatch_property_update" -> GetCallbacks(item.key)
      [] item.fn = "_dispatch_availability" -> availability_callbacks
      [] item.fn = "_dispatch_ready" -> ready_callbacks
      [] OTHER -> <<>>

DispatchKind(fn) ==
    CASE fn = "_dispatch_property_update" -> "property"
      [] fn = "_dispatch_availability" -> "availability"
      [] fn = "_dispatch_ready" -> "ready"
      [] OTHER -> "none"

\* the loop runs the next scheduled call: an Event.set, or a dispatch
\* function, which takes its snapshot of the subscriber list
LoopRun ==
    /\ cur = NoDispatch
    /\ queue # <<>>
    /\ queue' = Tail(queue)
    /\ LET item == Head(queue)
       IN  /\ description_received' =
                 (description_received \/ item.fn = "description_received.set")
           /\ device_ready' = (device_ready \/ item.fn = "device_ready.set")
           /\ cur' = IF Snapshot(item) = <<>> THEN NoDispatch
                     ELSE [kind |-> DispatchKind(item.fn), key |-> item.key,
                           value |-> item.value, flag |-> item.flag,
                           snap |-> Snapshot(item), i |-> 0, errs |-> 0]
    /\ UNCHANGED <<controller, device, available, property_callbacks,
                   availability_callbacks, ready_callbacks>>

\* the dispatch after its next callback has been called
Advance(d) == IF d.i + 1 = Len(d.snap) THEN NoDispatch ELSE [d EXCEPT !.i = @ + 1]

\* a slip: the exception of a callback leaves the dispatch function
AfterRaisePropagates(d) == NoDispatch

\* the dispatch after its next callback has raised: the except clause logs
\* the exception and the for loop goes on
AfterRaise(d) == Advance([d EXCEPT !.errs = @ + 1])

\* the callback the dispatch in progress calls next
NextCallback == cur.snap[cur.i + 1]

----------------------------------------------------------------------------
(* span_panel.py: the transport callbacks, on the paho-mqtt thread *)

DeviceStates == {"init", "ready", "lost"}
NoPend == [key |-> NoKey, value |-> ""]

\* _on_device_discovered, for the panel's own serial number
OnDeviceDiscovered ==
    /\ device' = "dev"
    /\ IF dev_state' = "ready"
       THEN /\ available' = TRUE
            /\ queue' = queue \o <<QItem("device_ready.set", NoKey, "", FALSE),
                                   QItem("_dispatch_ready", NoKey, "", FALSE)>>
       ELSE UNCHANGED <<available, queue>>

\* _on_description_received
OnDescriptionReceived ==
    /\ device' = "dev"
    /\ queue' = Append(queue, QItem("description_received.set", NoKey, "", FALSE))

\* a slip: the dispatch is scheduled whether or not the key has a subscriber
OnPropertyChangedUnfiltered(key, value) ==
    queue' = Append(queue, QItem("_dispatch_property_update", key, value, FALSE))

\* a slip: the dispatch is put at the front of the loop's queue
OnPropertyChangedPrepends(key, value) ==
    IF GetCallbacks(key) # <<>>
    THEN queue' = <<QItem("_dispatch_property_update", key, value, FALSE)>> \o queue
    ELSE UNCHANGED queue

\* _on_property_changed
OnPropertyChanged(key, value) ==
    IF GetCallbacks(key) # <<>>
    THEN queue' = Append(queue, QItem("_dispatch_property_update", key, value, FALSE))
    ELSE UNCHANGED queue

\* a slip: the flag is raised on ready and never lowered again
OnDeviceStateChangedSticky(new_state) ==
    LET q2 == IF new_state = "ready"
              THEN <<QItem("device_ready.set", NoKey, "", FALSE),
                     QItem("_dispatch_ready", NoKey, "", FALSE)>>
              ELSE <<>>
    IN  /\ available' = (available \/ new_state = "ready")
        /\ queue' = queue \o q2

\* a slip: only the first entry into ready is announced
OnDeviceStateChangedFirstReady(new_state) ==
    LET avail == (new_state = "ready")
        q1 == IF avail # available
              THEN <<QItem("_dispatch_availability", NoKey, "", avail)>>
              ELSE <<>>
        q2 == IF new_state = "ready" /\ ~device_ready
              THEN <<QItem("device_ready.set", NoKey, "", FALSE),
                     QItem("_dispatch_ready", NoKey, "", FALSE)>>
              ELSE <<>>
    IN  /\ available' = avail
        /\ queue' = queue \o q1 \o q2

\* _on_device_state_changed
OnDeviceStateChanged(new_state) ==
    LET avail == (new_state = "ready")
        q1 == IF avail # available
              THEN <<QItem("_dispatch_availability", NoKey, "", avail)>>
              ELSE <<>>
        q2 == IF new_state = "ready"
              THEN <<QItem("device_ready.set", NoKey, "", FALSE),
                     QItem("_dispatch_ready", NoKey, "", FALSE)>>
              ELSE <<>>
    IN  /\ available' = avail
        /\ queue' = queue \o q1 \o q2

TransportRuns == transport_alive /\ tpend = NoPend

\* the device appears: its $state arrives first
TDiscover(state) ==
    /\ TransportRuns
    /\ dev_state = None
    /\ Len(queue) + 2 <= MaxQueue
    /\ dev_state' = state
    /\ tcount' = tcount + 1
    /\ OnDeviceDiscovered
    /\ UNCHANGED <<controller, description_received, device_ready,
                   property_callbacks, availability_callbacks, ready_callbacks,
                   transport_alive, dev_description, dev_props, tpend, cur,
                   handles, phase>>

\* $description arrives (again)
TDescription(doc) ==
    /\ TransportRuns
    /\ dev_state # None
    /\ Len(queue) + 1 <= MaxQueue
    /\ dev_description' = doc
    /\ tcount' = tcount + 1
    /\ OnDescriptionReceived
    /\ UNCHANGED <<controller, available, description_received, device_ready,
                   property_callbacks, availability_callbacks, ready_callbacks,
                   transport_alive, dev_state, dev_props, tpend, cur,
                   handles, phase>>

\* $state changes
TState(new_state) ==
    /\ TransportRuns
    /\ dev_state # None
    /\ new_state # dev_state
    /\ Len(queue) + 3 <= MaxQueue
    /\ dev_state' = new_state
    /\ tcount' = tcount + 1
    /\ OnDeviceStateChanged(new_state)
    /\ UNCHANGED <<controller, device, description_received, device_ready,
                   property_callbacks, availability_callbacks, ready_callbacks,
                   transport_alive, dev_description, dev_props, tpend, cur,
                   handles, phase>>

\* a property value arrives: the device object stores it ...
TStore(key, value) ==
    /\ TransportRuns
    /\ dev_state # None
    /\ dev_props' = [dev_props EXCEPT ![key] = value]
    /\ tpend' = [key |-> key, value |-> value]
    /\ tcount' = tcount + 1
    /\ UNCHANGED <<panelVars, transport_alive, dev_state, dev_description,
                   loopVars, callerVars>>

\* ... and then the property-changed callback is called
TNotify ==
    /\ transport_alive
    /\ tpend # NoPend
    /\ Len(queue) + 1 <= MaxQueue
    /\ tpend' = NoPend
    /\ OnPropertyChanged(tpend.key, tpend.value)
    /\ UNCHANGED <<panelVars, transport_alive, dev_state, dev_description,
                   dev_props, tcount, cur, handles, phase>>

TransportInit ==
    /\ transport_alive = FALSE
    /\ dev_state = None
    /\ dev_description = None
    /\ dev_props = [k \in AllKeys |-> None]
    /\ tpend = NoPend
    /\ tcount = 0

----------------------------------------------------------------------------
(* sensor.py *)

NUMERIC_DEVICE_CLASSES == {"power", "energy", "battery", "current", "voltage",
                           "energy_storage"}

\* SpanPanel.get_property_value(node, "name") as the sensor sees it
SensorNameOf(v) == IF v \in NameNodes THEN GetPropertyValue(Key(v)) ELSE None

\* a slip: a value that does not parse leaves the displayed value as it was
SetNativeValueKeepsOnError(value) ==
    /\ Len(delivered) < MaxReadings
    /\ delivered' = Append(delivered, value)
    /\ IF attr_device_class \in NUMERIC_DEVICE_CLASSES
       THEN /\ LET p == ParseFloat(Chars(value))
               IN  attr_native_value' =
                     IF p.ok
                     THEN NumV(IF spec_negate THEN 0 - p.n ELSE p.n)
                     ELSE attr_native_value
            /\ UNCHANGED attr_extra_state_attributes
       ELSE /\ attr_native_value' = StrV(value)
            /\ UNCHANGED attr_extra_state_attributes
    /\ UNCHANGED <<attr_device_class, attr_state_class, spec_negate,
                   property_id, log_warnings>>

\* _update_from_value, as far as the sensor's own fields go
SetNativeValue(value) ==
    /\ Len(delivered) < MaxReadings
    /\ delivered' = Append(delivered, value)
    /\ IF attr_device_class \in NUMERIC_DEVICE_CLASSES
       THEN /\ LET p == ParseFloat(Chars(value))
               IN  attr_native_value' =
                     IF p.ok
                     THEN NumV(IF spec_negate THEN 0 - p.n ELSE p.n)
                     ELSE NoValue
            /\ UNCHANGED attr_extra_state_attributes
       ELSE IF property_id = "feed"
       THEN LET name == SensorNameOf(value)
            IN  IF name # None
                THEN /\ attr_native_value' = StrV(name)
                     /\ attr_extra_state_attributes' = value
                ELSE /\ attr_native_value' = StrV(value)
                     /\ UNCHANGED attr_extra_state_attributes
       ELSE /\ attr_native_value' = StrV(value)
            /\ UNCHANGED attr_extra_state_attributes
    /\ UNCHANGED <<attr_device_class, attr_state_class, spec_negate,
                   property_id, log_warnings>>

\* _update_from_value called on its own
UpdateFromValue(value) ==
    /\ SetNativeValue(value)
    /\ UNCHANGED <<panelVars, transportVars, loopVars, callerVars, setupVars,
                   hostVars, toolVars>>

SensorUpdate == \E value \in WireValues : UpdateFromValue(value)

\* no command sent yet
NoCommands == [calls |-> 0, forwarded |-> 0, sdk_result |-> None,
               result |-> None]

\* the serial numbers service calls name, and the registry before any
\* device is registered
Serials == {"nt-2024-a1b2c", "nt-2024-d3e4f", "nt-9999-missing"}
NoDevice == <<>>
NoError == [what |-> None, serial |-> None]
NoRegistry ==
    [devices |-> {}, via |-> [s \in Serials |-> NoDevice], updates |-> 0]
NoCall == [sub_serial |-> None, parent_serial |-> None, error |-> NoError]

\* no call of the mapper has returned yet
NoSpecs == [returned |-> FALSE, specs |-> <<>>]

\* no document mapped, no service called, no sensor or select built from a
\* descriptor
ToolIdle ==
    /\ schema_doc = <<>>
    /\ entity_specs = NoSpecs
    /\ entity_specs_again = NoSpecs
    /\ dev_reg = NoRegistry
    /\ service_call = NoCall
    /\ attr_native_unit_of_measurement = None
    /\ attr_options = <<>>
    /\ attr_current_option = None

\* util.make_unique_id: the three parts joined by underscores
\* a slip: the node id is left out
MakeUniqueIdWithoutNode(serial_number, node_id, prop) ==
    serial_number \o "_" \o prop

MakeUniqueId(serial_number, node_id, prop) ==
    serial_number \o "_" \o node_id \o "_" \o prop

\* one entry, its entity constructed for c1/active-power and not yet added
HostIdle ==
    /\ ent_phase = "constructed"
    /\ spec_source_property_id = None
    /\ attr_unique_id = MakeUniqueId("serial", "c1", "active-power")
    /\ commands = NoCommands
    /\ configured = TRUE
    /\ leaked = 0

SensorInit ==
    /\ attr_device_class \in {"energy", "power", "none"}
    /\ attr_state_class \in {"total_increasing", "measurement"}
    /\ spec_negate \in BOOLEAN
    /\ property_id \in {"exported-energy", "active-power", "feed"}
    /\ attr_native_value = NoValue
    /\ attr_extra_state_attributes = None
    /\ log_warnings = 0
    /\ delivered = <<>>
    /\ controller = "ctrl"
    /\ device = "dev"
    /\ available = TRUE
    /\ description_received = TRUE
    /\ device_ready = TRUE
    /\ property_callbacks = EmptyMap
    /\ availability_callbacks = <<>>
    /\ ready_callbacks = <<>>
    /\ phase = "started"
    /\ transport_alive = TRUE
    /\ dev_state = "ready"
    /\ dev_description = "d2"
    /\ dev_props \in {f \in [AllKeys -> {None, "Kitchen"}] : f[EntityKey] = None}
    /\ tpend = NoPend
    /\ tcount = 0
    /\ queue = <<>>
    /\ cur = NoDispatch
    /\ handles = EmptyBag
    /\ pc = "loaded"
    /\ description = "d2"
    /\ missing = <<>>
    /\ idx = 0
    /\ events = {}
    /\ names_ok = "true"
    /\ result = "ok"
    /\ mapped = TRUE
    /\ registered = TRUE
    /\ platforms = TRUE
    /\ warnings = {}
    /\ nw_before = [k \in Keys |-> <<>>]
    /\ HostIdle
    /\ ToolIdle

SensorNext == SensorUpdate

SpecSensor == SensorInit /\ [][SensorNext]_vars

----------------------------------------------------------------------------
(* span_panel.py: start, stop, and the callers of the public operations *)

Callbacks == {"f", "g"}

\* what the callers of SpecBridge register: either callback under either
\* key, one availability callback, one ready callback
Subscribers ==
    {<<"property", key, cb>> : key \in Keys, cb \in Callbacks}
        \cup {<<"availability", NoKey, "f">>, <<"ready", NoKey, "f">>}

\* async_start: the Controller is created and its thread started
AsyncStart ==
    /\ controller' = "ctrl"
    /\ transport_alive' = TRUE

\* a slip: the fields are reset, the callback registrations are kept
ClearPanelKeepsLists ==
    /\ controller' = None
    /\ device' = None
    /\ available' = FALSE
    /\ UNCHANGED <<property_callbacks, availability_callbacks, ready_callbacks>>

\* async_stop after its await: the fields are reset, the lists cleared
ClearPanel ==
    /\ controller' = None
    /\ device' = None
    /\ available' = FALSE
    /\ property_callbacks' = EmptyMap
    /\ availability_callbacks' = <<>>
    /\ ready_callbacks' = <<>>

\* a slip: async_stop resets the device and the lists and leaves the
\* Controller, with its thread, in place
AsyncStopKeepsController ==
    /\ UNCHANGED <<transport_alive, controller>>
    /\ device' = None
    /\ available' = FALSE
    /\ property_callbacks' = EmptyMap
    /\ availability_callbacks' = <<>>
    /\ ready_callbacks' = <<>>

\* a slip: async_stop returns without having stopped or reset anything
AsyncStopSkipped ==
    UNCHANGED <<transport_alive, controller, device, available,
                property_callbacks, availability_callbacks, ready_callbacks>>

\* async_stop as a whole, seen when its await has returned
AsyncStop ==
    /\ transport_alive' = FALSE
    /\ ClearPanel

\* An unregister function is the closure over (key, cb) that a register
\* operation returned.  The callers hold them as a bag of handles
\* [kind, key, cb, calls]; calls is 0, 1, or 2 for "twice or more".
Handle(kind, key, cb, calls) ==
    [kind |-> kind, key |-> key, cb |-> cb, calls |-> calls]

Called(r) == [r EXCEPT !.calls = IF @ = 0 THEN 1 ELSE 2]

\* one of the three register operations
Register(kind, key, cb) ==
    /\ property_callbacks' =
          IF kind = "property" THEN RegisterProperty(property_callbacks, key, cb)
          ELSE property_callbacks
    /\ availability_callbacks' =
          IF kind = "availability" THEN RegisterList(availability_callbacks, cb)
          ELSE availability_callbacks
    /\ ready_callbacks' =
          IF kind = "ready" THEN RegisterList(ready_callbacks, cb)
          ELSE ready_callbacks
    /\ handles' = handles (+) SetToBag({Handle(kind, key, cb, 0)})

\* a call of the unregister function r
Unregister(r) ==
    /\ property_callbacks' =
          IF r.kind = "property"
          THEN UnregisterProperty(property_callbacks, r.key, r.cb)
          ELSE property_callbacks
    /\ availability_callbacks' =
          IF r.kind = "availability"
          THEN UnregisterList(availability_callbacks, r.cb)
          ELSE availability_callbacks
    /\ ready_callbacks' =
          IF r.kind = "ready" THEN UnregisterList(ready_callbacks, r.cb)
          ELSE ready_callbacks
    /\ handles' = (handles (-) SetToBag({r})) (+) SetToBag({Called(r)})

BridgeStart ==
    /\ phase = "created"
    /\ phase' = "started"
    /\ AsyncStart
    /\ UNCHANGED <<device, available, description_received, device_ready,
                   property_callbacks, availability_callbacks, ready_callbacks,
                   dev_state, dev_description, dev_props, tpend, tcount,
                   loopVars, handles, sensorVars, hostVars, toolVars,
                   setupVars>>

\* async_stop up to its await: Controller.stop runs in the executor and
\* returns when the transport thread has ended
BridgeStopBegin ==
    /\ phase = "started"
    /\ cur = NoDispatch
    /\ tpend = NoPend
    /\ phase' = "stopping"
    /\ transport_alive' = FALSE
    /\ UNCHANGED <<panelVars, dev_state, dev_description, dev_props, tpend,
                   tcount, loopVars, handles, sensorVars, hostVars, toolVars,
                   setupVars>>

BridgeStopEnd ==
    /\ phase = "stopping"
    /\ cur = NoDispatch
    /\ phase' = "stopped"
    /\ ClearPanel
    /\ UNCHANGED <<description_received, device_ready, transportVars,
                   loopVars, handles, sensorVars, hostVars, toolVars,
                   setupVars>>

\* async_stop of a bridge that was never started does not suspend
BridgeStopUnstarted ==
    /\ phase = "created"
    /\ cur = NoDispatch
    /\ phase' = "stopped"
    /\ ClearPanel
    /\ UNCHANGED <<description_received, device_ready, transportVars,
                   loopVars, handles, sensorVars, hostVars, toolVars,
                   setupVars>>

BridgeRegister ==
    /\ cur = NoDispatch
    /\ BagCardinality(handles) < MaxHandles
    /\ \E s \in Subscribers : Register(s[1], s[2], s[3])
    /\ UNCHANGED <<controller, device, available, description_received,
                   device_ready, transportVars, loopVars, phase, sensorVars, hostVars, toolVars,
                   setupVars>>

BridgeUnregister ==
    /\ cur = NoDispatch
    /\ \E r \in BagToSet(handles) : Unregister(r)
    /\ UNCHANGED <<controller, device, available, description_received,
                   device_ready, transportVars, loopVars, phase, sensorVars, hostVars, toolVars,
                   setupVars>>

\* the dispatch in progress calls its next callback; the callback returns
BridgeInvoke ==
    /\ cur # NoDispatch
    /\ cur' = Advance(cur)
    /\ UNCHANGED <<panelVars, transportVars, queue, callerVars, sensorVars, hostVars, toolVars,
                   setupVars>>

\* ... or the callback calls an unregister function before it returns
BridgeInvokeUnregister ==
    /\ cur # NoDispatch
    /\ cur' = Advance(cur)
    /\ \E r \in BagToSet(handles) : Unregister(r)
    /\ UNCHANGED <<controller, device, available, description_received,
                   device_ready, transportVars, queue, phase, sensorVars, hostVars, toolVars,
                   setupVars>>

\* ... or the callback raises
BridgeInvokeRaises ==
    /\ cur # NoDispatch
    /\ cur' = AfterRaise(cur)
    /\ UNCHANGED <<panelVars, transportVars, queue, callerVars, sensorVars, hostVars, toolVars,
                   setupVars>>

BridgeLoopRun ==
    /\ LoopRun
    /\ UNCHANGED <<transportVars, callerVars, sensorVars, hostVars, toolVars,
                   setupVars>>

BridgeDiscover ==
    /\ tcount < MaxTransport
    /\ \E state \in {"init", "ready"} : TDiscover(state)
    /\ UNCHANGED <<sensorVars, hostVars, toolVars, setupVars>>

BridgeState ==
    /\ tcount < MaxTransport
    /\ \E new_state \in DeviceStates : TState(new_state)
    /\ UNCHANGED <<sensorVars, hostVars, toolVars, setupVars>>

BridgeStore ==
    /\ tcount < MaxTransport
    /\ \E key \in Keys : TStore(key, "Kitchen")
    /\ UNCHANGED <<sensorVars, hostVars, toolVars, setupVars>>

BridgeNotify ==
    /\ TNotify
    /\ UNCHANGED <<sensorVars, hostVars, toolVars, setupVars>>

\* no entry is being set up
SetupIdle ==
    /\ pc = "idle"
    /\ description = None
    /\ missing = <<>>
    /\ idx = 0
    /\ events = {}
    /\ names_ok = None
    /\ result = None
    /\ mapped = FALSE
    /\ registered = FALSE
    /\ platforms = FALSE
    /\ warnings = {}
    /\ nw_before = [k \in Keys |-> <<>>]

SensorIdle ==
    /\ attr_device_class = "none"
    /\ attr_state_class = "measurement"
    /\ spec_negate = FALSE
    /\ property_id = "feed"
    /\ attr_native_value = NoValue
    /\ attr_extra_state_attributes = None
    /\ log_warnings = 0
    /\ delivered = <<>>

BridgeInit ==
    /\ SensorIdle
    /\ SetupIdle
    /\ HostIdle
    /\ ToolIdle
    /\ PanelInit
    /\ TransportInit
    /\ queue = <<>>
    /\ cur = NoDispatch
    /\ handles = EmptyBag
    /\ phase = "created"

BridgeNext ==
    \/ BridgeStart
    \/ BridgeStopBegin
    \/ BridgeStopEnd
    \/ BridgeStopUnstarted
    \/ BridgeRegister
    \/ BridgeUnregister
    \/ BridgeLoopRun
    \/ BridgeInvoke
    \/ BridgeInvokeUnregister
    \/ BridgeInvokeRaises
    \/ BridgeDiscover
    \/ BridgeState
    \/ BridgeStore
    \/ BridgeNotify

SpecBridge == BridgeInit /\ [][BridgeNext]_vars

----------------------------------------------------------------------------
(* __init__.py: async_setup_entry, _wait_for_circuit_names, unload *)

\* the $description documents: the empty one, one without circuits, and
\* one with the circuit nodes c1 and c2
SetupDocs == {"{}", "d0", "d2"}

\* bool(description)
Truthy(doc) == doc # None /\ doc # "{}"

\* the ids of the nodes of type energy.ebus.device.circuit
CircuitNodeIds(doc) == IF doc = "d2" THEN <<"c1", "c2">> ELSE <<>>

\* a slip: the document the setup has read is kept and returned from then on
PanelDescriptionKept ==
    IF device = None THEN None
    ELSE IF description # None THEN description ELSE dev_description

\* SpanPanel.description
PanelDescription == IF device = None THEN None ELSE dev_description

Range(seq) == {seq[i] : i \in 1..Len(seq)}

\* the coroutine is suspended in an await, or has returned: the event loop
\* runs the calls scheduled on it
Suspended ==
    pc \in {"wait_schema", "abort_stop", "not_ready", "wait_ready", "nw_await",
            "forward", "loaded", "unload_stop", "unloaded"}

waitVars == <<missing, idx, events, names_ok, nw_before>>

outcomeVars == <<description, result, mapped, registered, platforms, warnings>>

\* the unregister functions a list of registrations returned
RECURSIVE CallAll(_, _)
CallAll(bag, rs) ==
    IF rs = <<>> THEN bag
    ELSE CallAll((bag (-) SetToBag({Head(rs)})) (+) SetToBag({Called(Head(rs))}),
                 Tail(rs))

RECURSIVE UnregisterAll(_, _)
UnregisterAll(map, rs) ==
    IF rs = <<>> THEN map
    ELSE UnregisterAll(UnregisterProperty(map, Head(rs).key, Head(rs).cb),
                       Tail(rs))

RECURSIVE RegisterAll(_, _)
RegisterAll(map, rs) ==
    IF rs = <<>> THEN map
    ELSE RegisterAll(RegisterProperty(map, Head(rs).key, Head(rs).cb), Tail(rs))

\* the list unregs of _wait_for_circuit_names when every missing name has
\* its subscriber
Unregs == [i \in 1..Len(missing) |->
              Handle("property", Key(missing[i]), "_on_name", 0)]

\* the property part of unregister_callbacks of async_setup_entry
NameUpdates(doc) ==
    [i \in 1..Len(CircuitNodeIds(doc)) |->
        Handle("property", Key(CircuitNodeIds(doc)[i]), "_on_name_update", 0)]

OnReady == Handle("ready", NoKey, "_on_ready", 0)

\* panel = SpanPanel(...); await panel.async_start()
SetupStart ==
    /\ pc = "idle"
    /\ pc' = "wait_schema"
    /\ phase' = "started"
    /\ AsyncStart
    /\ UNCHANGED <<device, available, description_received, device_ready,
                   property_callbacks, availability_callbacks, ready_callbacks,
                   dev_state, dev_description, dev_props, tpend, tcount,
                   loopVars, handles, sensorVars, hostVars, toolVars, waitVars, outcomeVars>>

\* the wait for description_received ends by its timeout: async_stop begins
SchemaTimeout ==
    /\ pc = "wait_schema"
    /\ cur = NoDispatch
    /\ ~description_received
    /\ pc' = "abort_stop"
    /\ phase' = "stopping"
    /\ UNCHANGED <<panelVars, transportVars, loopVars, handles, sensorVars, hostVars, toolVars,
                   waitVars, outcomeVars>>

\* the gate is set: the description is read; a falsy one aborts as well,
\* otherwise the circuit ids are not yet needed and the ready wait begins
SchemaArrived ==
    /\ pc = "wait_schema"
    /\ cur = NoDispatch
    /\ description_received
    /\ description' = PanelDescription
    /\ IF Truthy(PanelDescription)
       THEN pc' = "wait_ready" /\ UNCHANGED phase
       ELSE pc' = "abort_stop" /\ phase' = "stopping"
    /\ UNCHANGED <<panelVars, transportVars, loopVars, handles, sensorVars, hostVars, toolVars,
                   waitVars, result, mapped, registered, platforms, warnings>>

\* async_stop returns: the transport thread has ended, the bridge is reset,
\* and ConfigEntryNotReady is raised
AbortStopped ==
    /\ pc = "abort_stop"
    /\ cur = NoDispatch
    /\ tpend = NoPend
    /\ AsyncStop
    /\ result' = "not_ready"
    /\ pc' = "not_ready"
    /\ phase' = "stopped"
    /\ UNCHANGED <<description_received, device_ready, dev_state,
                   dev_description, dev_props, tpend, tcount, loopVars, handles,
                   sensorVars, hostVars, toolVars, waitVars, description, mapped, registered,
                   platforms, warnings>>

\* after the ready wait: the circuit ids are listed and, if there are any,
\* _wait_for_circuit_names is entered
AfterReady ==
    IF CircuitNodeIds(description) # <<>>
    THEN /\ pc' = "nw_check"
         /\ idx' = 1
         /\ nw_before' = [k \in Keys |-> GetCallbacks(k)]
    ELSE /\ pc' = "map"
         /\ UNCHANGED <<idx, nw_before>>

ReadyArrived ==
    /\ pc = "wait_ready"
    /\ cur = NoDispatch
    /\ device_ready
    /\ AfterReady
    /\ UNCHANGED <<panelVars, transportVars, loopVars, callerVars, sensorVars, hostVars, toolVars,
                   missing, events, names_ok, outcomeVars>>

\* the wait for device_ready ends by its timeout: a warning, and on
ReadyTimeout ==
    /\ pc = "wait_ready"
    /\ cur = NoDispatch
    /\ ~device_ready
    /\ warnings' = warnings \cup {"ready"}
    /\ AfterReady
    /\ UNCHANGED <<panelVars, transportVars, loopVars, callerVars, sensorVars, hostVars, toolVars,
                   missing, events, names_ok, description, result, mapped,
                   registered, platforms>>

\* a slip: the early return gives False
NWCheckReturnsFalse ==
    /\ pc = "nw_check"
    /\ LET ids == CircuitNodeIds(description)
           nid == ids[idx]
           m == IF ids = <<>> THEN missing
                ELSE IF GetPropertyValue(Key(nid)) = None
                THEN Append(missing, nid)
                ELSE missing
       IN  /\ missing' = m
           /\ IF idx < Len(ids)
              THEN idx' = idx + 1 /\ UNCHANGED <<pc, names_ok>>
              ELSE IF m = <<>>
              THEN pc' = "map" /\ idx' = 0 /\ names_ok' = "false"
              ELSE pc' = "nw_register" /\ idx' = 1 /\ UNCHANGED names_ok
    /\ UNCHANGED <<panelVars, transportVars, loopVars, callerVars, sensorVars, hostVars, toolVars,
                   events, nw_before, outcomeVars>>

\* _wait_for_circuit_names, the initial check of one node id; after the
\* last one, the early return when nothing is missing
NWCheck ==
    /\ pc = "nw_check"
    /\ LET ids == CircuitNodeIds(description)
           nid == ids[idx]
           m == IF ids = <<>> THEN missing
                ELSE IF GetPropertyValue(Key(nid)) = None
                THEN Append(missing, nid)
                ELSE missing
       IN  /\ missing' = m
           /\ IF idx < Len(ids)
              THEN idx' = idx + 1 /\ UNCHANGED <<pc, names_ok>>
              ELSE IF m = <<>>
              THEN pc' = "map" /\ idx' = 0 /\ names_ok' = "true"
              ELSE pc' = "nw_register" /\ idx' = 1 /\ UNCHANGED names_ok
    /\ UNCHANGED <<panelVars, transportVars, loopVars, callerVars, sensorVars, hostVars, toolVars,
                   events, nw_before, outcomeVars>>

\* the temporary subscriber of one missing name is registered
NWRegister ==
    /\ pc = "nw_register"
    /\ Register("property", Key(missing[idx]), "_on_name")
    /\ IF idx < Len(missing)
       THEN idx' = idx + 1 /\ UNCHANGED pc
       ELSE idx' = 1 /\ pc' = "nw_recheck"
    /\ UNCHANGED <<controller, device, available, description_received,
                   device_ready, transportVars, loopVars, phase, sensorVars, hostVars, toolVars,
                   missing, events, names_ok, nw_before, outcomeVars>>

\* a slip: the re-check reads the value and sets no event
ReCheckSkipped(nid) == events

\* the re-check of one missing name, after the registration
ReCheck(nid) ==
    IF GetPropertyValue(Key(nid)) # None THEN events \cup {nid} ELSE events

NWRecheck ==
    /\ pc = "nw_recheck"
    /\ events' = ReCheck(missing[idx])
    /\ IF idx < Len(missing)
       THEN idx' = idx + 1 /\ UNCHANGED pc
       ELSE idx' = 0 /\ pc' = "nw_gather"
    /\ UNCHANGED <<panelVars, transportVars, loopVars, callerVars, sensorVars, hostVars, toolVars,
                   missing, names_ok, nw_before, outcomeVars>>

\* await asyncio.wait_for(asyncio.gather(...)): the coroutine suspends
NWAwait ==
    /\ pc = "nw_gather"
    /\ pc' = "nw_await"
    /\ UNCHANGED <<panelVars, transportVars, loopVars, callerVars, sensorVars, hostVars, toolVars,
                   waitVars, outcomeVars>>

\* a slip: the finally clause unregisters nothing
FinallyLeaks(rs) ==
    /\ UNCHANGED <<property_callbacks, handles>>

\* finally: for unreg in unregs: unreg()
Finally(rs) ==
    /\ property_callbacks' = UnregisterAll(property_callbacks, rs)
    /\ handles' = CallAll(handles, rs)

\* a slip: the gather is taken as complete when any one event is set
AllSetAny(nids) == \E n \in Range(nids) : n \in events

\* every event of the gather is set
AllSet(nids) == \A n \in Range(nids) : n \in events

\* the gather completes: return True, through the finally clause
NWDone ==
    /\ pc = "nw_await"
    /\ cur = NoDispatch
    /\ AllSet(missing)
    /\ names_ok' = "true"
    /\ Finally(Unregs)
    /\ pc' = "map"
    /\ UNCHANGED <<controller, device, available, description_received,
                   device_ready, availability_callbacks, ready_callbacks,
                   transportVars, loopVars, phase, sensorVars, hostVars, toolVars, missing, idx,
                   events, nw_before, outcomeVars>>

\* the timeout expires first: return False, through the finally clause; the
\* caller logs its warning
NWTimeout ==
    /\ pc = "nw_await"
    /\ cur = NoDispatch
    /\ ~AllSet(missing)
    /\ names_ok' = "false"
    /\ Finally(Unregs)
    /\ warnings' = warnings \cup {"names"}
    /\ pc' = "map"
    /\ UNCHANGED <<controller, device, available, description_received,
                   device_ready, availability_callbacks, ready_callbacks,
                   transportVars, loopVars, phase, sensorVars, hostVars, toolVars, missing, idx,
                   events, nw_before, description, result, mapped, registered,
                   platforms>>

\* the description is mapped, the devices are registered, the name-update
\* and ready subscribers are registered and kept for the unload
SetupMap ==
    /\ pc = "map"
    /\ mapped' = TRUE
    /\ registered' = TRUE
    /\ property_callbacks' =
          RegisterAll(property_callbacks, NameUpdates(description))
    /\ ready_callbacks' = RegisterList(ready_callbacks, OnReady.cb)
    /\ handles' = handles (+) SetToBag(Range(NameUpdates(description)))
                          (+) SetToBag({OnReady})
    /\ pc' = "forward"
    /\ UNCHANGED <<controller, device, available, description_received,
                   device_ready, availability_callbacks, transportVars,
                   loopVars, phase, sensorVars, hostVars, toolVars, waitVars, description, result,
                   platforms, warnings>>

\* a slip: a warning logged on the way makes the setup raise at its end
SetupResultStrict == IF warnings = {} THEN "ok" ELSE "not_ready"

\* return True
SetupResult == "ok"

\* await async_forward_entry_setups(...) returns
SetupForward ==
    /\ pc = "forward"
    /\ cur = NoDispatch
    /\ platforms' = TRUE
    /\ result' = SetupResult
    /\ pc' = "loaded"
    /\ UNCHANGED <<panelVars, transportVars, loopVars, callerVars, sensorVars, hostVars, toolVars,
                   waitVars, description, mapped, registered, warnings>>

\* async_unload_entry: the platforms are unloaded, the kept unregister
\* functions called, and async_stop begins
Unload ==
    /\ pc = "loaded"
    /\ cur = NoDispatch
    /\ platforms' = FALSE
    /\ property_callbacks' =
          UnregisterAll(property_callbacks, NameUpdates(description))
    /\ ready_callbacks' = UnregisterList(ready_callbacks, OnReady.cb)
    /\ handles' = CallAll(handles, NameUpdates(description) \o <<OnReady>>)
    /\ pc' = "unload_stop"
    /\ phase' = "stopping"
    /\ UNCHANGED <<controller, device, available, description_received,
                   device_ready, availability_callbacks, transportVars,
                   loopVars, sensorVars, hostVars, toolVars, waitVars, description, result, mapped,
                   registered, warnings>>

\* async_stop of the unload returns
UnloadStopped ==
    /\ pc = "unload_stop"
    /\ cur = NoDispatch
    /\ tpend = NoPend
    /\ AsyncStop
    /\ pc' = "unloaded"
    /\ phase' = "stopped"
    /\ UNCHANGED <<description_received, device_ready, dev_state,
                   dev_description, dev_props, tpend, tcount, loopVars, handles,
                   sensorVars, hostVars, toolVars, waitVars, outcomeVars>>

\* the loop runs a scheduled call while the coroutine is suspended
SetupLoopRun ==
    /\ Suspended
    /\ LoopRun
    /\ UNCHANGED <<transportVars, callerVars, sensorVars, hostVars, toolVars, setupVars>>

\* the dispatch in progress calls its next callback: _on_name sets the event
\* of its node; _on_name_update and _on_ready refresh the device registry
SetupInvoke ==
    /\ cur # NoDispatch
    /\ cur' = Advance(cur)
    /\ events' = IF NextCallback = "_on_name" THEN events \cup {cur.key[1]}
                 ELSE events
    /\ UNCHANGED <<panelVars, transportVars, queue, callerVars, sensorVars, hostVars, toolVars,
                   pc, missing, idx, names_ok, nw_before, outcomeVars>>

SetupDiscover ==
    /\ tcount < MaxMessages
    /\ \E state \in {"init", "ready"} : TDiscover(state)
    /\ UNCHANGED <<sensorVars, hostVars, toolVars, setupVars>>

SetupDescription ==
    /\ tcount < MaxMessages
    /\ \E doc \in SetupDocs : TDescription(doc)
    /\ UNCHANGED <<sensorVars, hostVars, toolVars, setupVars>>

SetupState ==
    /\ tcount < MaxMessages
    /\ \E new_state \in DeviceStates : TState(new_state)
    /\ UNCHANGED <<sensorVars, hostVars, toolVars, setupVars>>

SetupStore ==
    /\ tcount < MaxMessages
    /\ \E key \in Keys : TStore(key, "Kitchen")
    /\ UNCHANGED <<sensorVars, hostVars, toolVars, setupVars>>

SetupNotify ==
    /\ TNotify
    /\ UNCHANGED <<sensorVars, hostVars, toolVars, setupVars>>

SetupInit ==
    /\ SensorIdle
    /\ SetupIdle
    /\ HostIdle
    /\ ToolIdle
    /\ PanelInit
    /\ TransportInit
    /\ queue = <<>>
    /\ cur = NoDispatch
    /\ handles = EmptyBag
    /\ phase = "created"

SetupNext ==
    \/ SetupStart
    \/ SchemaTimeout
    \/ SchemaArrived
    \/ AbortStopped
    \/ ReadyArrived
    \/ ReadyTimeout
    \/ NWCheck
    \/ NWRegister
    \/ NWRecheck
    \/ NWAwait
    \/ NWDone
    \/ NWTimeout
    \/ SetupMap
    \/ SetupForward
    \/ Unload
    \/ UnloadStopped
    \/ SetupLoopRun
    \/ SetupInvoke
    \/ SetupDiscover
    \/ SetupDescription
    \/ SetupState
    \/ SetupStore
    \/ SetupNotify

SpecSetup == SetupInit /\ [][SetupNext]_vars

\* The same with the scheduling of the event loop: a coroutine runs on to
\* its next await, the loop starts every call scheduled on it, a dispatch
\* function runs to its end.
FairSpecSetup ==
    /\ SpecSetup
    /\ WF_vars(NWCheck)
    /\ WF_vars(NWRegister)
    /\ WF_vars(NWRecheck)
    /\ WF_vars(NWAwait)
    /\ WF_vars(SetupMap)
    /\ WF_vars(SetupLoopRun)
    /\ WF_vars(SetupInvoke)

----------------------------------------------------------------------------
(* entity_base.py: one SpanEbusSensor on a loaded bridge *)

\* the descriptors a platform is asked to build an entity from: the plain
\* one of a circuit's active-power, and the aliased one of
\* tests/test_sensor.py (generation-power, fed from active-power)
Descriptors ==
    {[property_id |-> "active-power", source_property_id |-> None],
     [property_id |-> "generation-power", source_property_id |-> "active-power"]}

\* the values the panel publishes for the entity's property
EntityValues == {"940.0", "950.0"}

\* (self._node_id, self._property_id)
OwnKey == <<"c1", property_id>>

\* EntitySpec(...) and SpanEbusSensor(panel, spec).  EntitySpec is a
\* dataclass without a source_property_id field, so its generated __init__
\* raises TypeError for that keyword and no entity comes to exist.
EntityConstruct ==
    /\ ent_phase = "undefined"
    /\ \E d \in Descriptors, negate \in BOOLEAN :
          /\ spec_source_property_id' = d.source_property_id
          /\ IF d.source_property_id # None
             THEN /\ ent_phase' = "type_error"
                  /\ UNCHANGED <<sensorVars, attr_unique_id>>
             ELSE /\ ent_phase' = "constructed"
                  /\ property_id' = d.property_id
                  /\ attr_unique_id' = MakeUniqueId("serial", "c1", d.property_id)
                  /\ attr_device_class' = "power"
                  /\ attr_state_class' = "measurement"
                  /\ spec_negate' = negate
                  /\ UNCHANGED <<attr_native_value, attr_extra_state_attributes,
                                 log_warnings, delivered>>
    /\ UNCHANGED <<panelVars, transportVars, loopVars, callerVars, setupVars,
                   commands, configured, leaked,
                   toolVars>>

\* async_added_to_hass, its two registrations
EntityAdded ==
    /\ ent_phase = "constructed"
    /\ cur = NoDispatch
    /\ ent_phase' = "registered"
    /\ property_callbacks' =
          RegisterProperty(property_callbacks, OwnKey, "_on_value_update")
    /\ availability_callbacks' =
          RegisterList(availability_callbacks, "_on_availability_update")
    /\ handles' = handles
                    (+) SetToBag({Handle("property", OwnKey, "_on_value_update", 0)})
                    (+) SetToBag({Handle("availability", NoKey,
                                         "_on_availability_update", 0)})
    /\ UNCHANGED <<controller, device, available, description_received,
                   device_ready, ready_callbacks, transportVars, loopVars, phase,
                   sensorVars, setupVars, spec_source_property_id,
                   attr_unique_id, commands, configured, leaked,
                   toolVars>>

\* a slip: async_added_to_hass registers and does not read the current value
EntityInitialValueSkipped ==
    /\ ent_phase = "registered"
    /\ ent_phase' = "added"
    /\ UNCHANGED <<sensorVars, panelVars, transportVars, loopVars, callerVars,
                   setupVars, spec_source_property_id, attr_unique_id,
                   commands, configured, leaked, toolVars>>

\* async_added_to_hass, its read of the value already known; the transport
\* thread may have stored a value since the registration
EntityInitialValue ==
    /\ ent_phase = "registered"
    /\ ent_phase' = "added"
    /\ LET current == GetPropertyValue(OwnKey)
       IN  IF current # None THEN SetNativeValue(current)
           ELSE UNCHANGED sensorVars
    /\ UNCHANGED <<panelVars, transportVars, loopVars, callerVars, setupVars,
                   spec_source_property_id, attr_unique_id, commands,
                   configured, leaked,
                   toolVars>>

\* a slip: only the property subscription is given back
EntityRemovedKeepsAvailability ==
    /\ ent_phase = "added"
    /\ cur = NoDispatch
    /\ ent_phase' = "removed"
    /\ property_callbacks' =
          UnregisterProperty(property_callbacks, OwnKey, "_on_value_update")
    /\ UNCHANGED availability_callbacks
    /\ handles' = SetToBag({Called(r) : r \in BagToSet(handles)})
    /\ UNCHANGED <<controller, device, available, description_received,
                   device_ready, ready_callbacks, transportVars, loopVars, phase,
                   sensorVars, setupVars, spec_source_property_id,
                   attr_unique_id, commands, configured, leaked,
                   toolVars>>

\* async_will_remove_from_hass
EntityRemoved ==
    /\ ent_phase = "added"
    /\ cur = NoDispatch
    /\ ent_phase' = "removed"
    /\ property_callbacks' =
          UnregisterProperty(property_callbacks, OwnKey, "_on_value_update")
    /\ availability_callbacks' =
          UnregisterList(availability_callbacks, "_on_availability_update")
    /\ handles' = SetToBag({Called(r) : r \in BagToSet(handles)})
    /\ UNCHANGED <<controller, device, available, description_received,
                   device_ready, ready_callbacks, transportVars, loopVars, phase,
                   sensorVars, setupVars, spec_source_property_id,
                   attr_unique_id, commands, configured, leaked,
                   toolVars>>

\* the loop runs its next scheduled call, between two of the entity's own
\* (synchronous) methods
EntityLoopRun ==
    /\ ent_phase # "registered"
    /\ LoopRun
    /\ UNCHANGED <<transportVars, callerVars, sensorVars, setupVars, hostVars, toolVars>>

\* _dispatch_property_update calls _on_value_update(value);
\* _dispatch_availability calls _on_availability_update(available)
EntityInvoke ==
    /\ cur # NoDispatch
    /\ cur' = Advance(cur)
    /\ IF NextCallback = "_on_value_update" THEN SetNativeValue(cur.value)
       ELSE UNCHANGED sensorVars
    /\ UNCHANGED <<panelVars, transportVars, queue, callerVars, setupVars,
                   hostVars, toolVars>>

\* the panel publishes a value of the entity's property
EntityStore ==
    /\ tcount + 1 < MaxReadings
    /\ \E value \in EntityValues : TStore(EntityKey, value)
    /\ UNCHANGED <<sensorVars, setupVars, hostVars, toolVars>>

EntityNotify ==
    /\ TNotify
    /\ UNCHANGED <<sensorVars, setupVars, hostVars, toolVars>>

\* a loaded entry whose platform is about to build the entity
EntityInit ==
    /\ SensorIdle
    /\ controller = "ctrl"
    /\ device = "dev"
    /\ available = TRUE
    /\ description_received = TRUE
    /\ device_ready = TRUE
    /\ property_callbacks = EmptyMap
    /\ availability_callbacks = <<>>
    /\ ready_callbacks = <<>>
    /\ phase = "started"
    /\ transport_alive = TRUE
    /\ dev_state = "ready"
    /\ dev_description = "d2"
    /\ dev_props = [k \in AllKeys |-> None]
    /\ tpend = NoPend
    /\ tcount = 0
    /\ queue = <<>>
    /\ cur = NoDispatch
    /\ handles = EmptyBag
    /\ pc = "loaded"
    /\ description = "d2"
    /\ missing = <<>>
    /\ idx = 0
    /\ events = {}
    /\ names_ok = "true"
    /\ result = "ok"
    /\ mapped = TRUE
    /\ registered = TRUE
    /\ platforms = TRUE
    /\ warnings = {}
    /\ nw_before = [k \in Keys |-> <<>>]
    /\ ent_phase = "undefined"
    /\ spec_source_property_id = None
    /\ attr_unique_id = None
    /\ commands = NoCommands
    /\ configured = TRUE
    /\ leaked = 0
    /\ ToolIdle

EntityNext ==
    \/ EntityConstruct
    \/ EntityAdded
    \/ EntityInitialValue
    \/ EntityRemoved
    \/ EntityLoopRun
    \/ EntityInvoke
    \/ EntityStore
    \/ EntityNotify

SpecEntity == EntityInit /\ [][EntityNext]_vars

----------------------------------------------------------------------------
(* __init__.py, config_flow.py: the life of the config entry of one panel *)

\* the config flow: async_set_unique_id(serial) followed by
\* _abort_if_unique_id_configured creates an entry for a serial number only
\* if there is none yet
EntryCreate ==
    /\ ~configured
    /\ configured' = TRUE
    /\ UNCHANGED <<sensorVars, panelVars, transportVars, loopVars, callerVars,
                   setupVars, ent_phase, spec_source_property_id,
                   attr_unique_id, commands, leaked,
                   toolVars>>

\* the setup of the entry begins
EntrySetup ==
    /\ configured
    /\ SetupStart

\* async_setup_entry is entered again: SpanPanel(hass, serial_number,
\* mqtt_cfg) builds a new bridge that takes the place of the previous one.
\* A previous bridge that still holds its Controller, or whose transport
\* thread still runs, lives on unreferenced.  The calls the previous bridge
\* left on the loop are bound to that bridge and do nothing to the new one.
EntryReset ==
    /\ leaked' = leaked + (IF controller # None \/ transport_alive THEN 1 ELSE 0)
    /\ controller' = None
    /\ device' = None
    /\ available' = FALSE
    /\ description_received' = FALSE
    /\ device_ready' = FALSE
    /\ property_callbacks' = EmptyMap
    /\ availability_callbacks' = <<>>
    /\ ready_callbacks' = <<>>
    /\ transport_alive' = FALSE
    /\ dev_state' = None
    /\ dev_description' = None
    /\ dev_props' = [k \in AllKeys |-> None]
    /\ tpend' = NoPend
    /\ queue' = <<>>
    /\ cur' = NoDispatch
    /\ handles' = EmptyBag
    /\ phase' = "created"
    /\ pc' = "idle"
    /\ description' = None
    /\ missing' = <<>>
    /\ idx' = 0
    /\ events' = {}
    /\ names_ok' = None
    /\ result' = None
    /\ mapped' = FALSE
    /\ registered' = FALSE
    /\ platforms' = FALSE
    /\ warnings' = {}
    /\ nw_before' = [k \in Keys |-> <<>>]
    /\ UNCHANGED <<sensorVars, tcount, ent_phase, spec_source_property_id,
                   attr_unique_id, commands, configured,
                   toolVars>>

\* ConfigEntryNotReady was raised: the setup is tried again later
EntryRetry ==
    /\ pc = "not_ready"
    /\ cur = NoDispatch
    /\ EntryReset

\* the unloaded entry is set up again (reload)
EntryReload ==
    /\ pc = "unloaded"
    /\ cur = NoDispatch
    /\ EntryReset

EntryInit ==
    /\ SensorIdle
    /\ SetupIdle
    /\ PanelInit
    /\ TransportInit
    /\ queue = <<>>
    /\ cur = NoDispatch
    /\ handles = EmptyBag
    /\ phase = "created"
    /\ ent_phase = "constructed"
    /\ spec_source_property_id = None
    /\ attr_unique_id = MakeUniqueId("serial", "c1", "active-power")
    /\ commands = NoCommands
    /\ configured = FALSE
    /\ leaked = 0
    /\ ToolIdle

EntryNext ==
    \/ EntryCreate
    \/ EntrySetup
    \/ EntryRetry
    \/ EntryReload
    \/ SchemaTimeout
    \/ SchemaArrived
    \/ AbortStopped
    \/ ReadyArrived
    \/ ReadyTimeout
    \/ NWCheck
    \/ NWRegister
    \/ NWRecheck
    \/ NWAwait
    \/ NWDone
    \/ NWTimeout
    \/ SetupMap
    \/ SetupForward
    \/ Unload
    \/ UnloadStopped
    \/ SetupLoopRun
    \/ SetupInvoke
    \/ SetupDiscover
    \/ SetupDescription
    \/ SetupState
    \/ SetupStore
    \/ SetupNotify

SpecEntry == EntryInit /\ [][EntryNext]_vars

----------------------------------------------------------------------------
(* services.py: the link_subpanel service and the device registry *)

\* DeviceEntry.id of the device registered for a serial number
DeviceId(serial) == <<"device", serial>>

\* dev_reg.async_get_device(identifiers={(DOMAIN, serial)})
AsyncGetDevice(serial) ==
    IF serial \in dev_reg.devices THEN DeviceId(serial) ELSE NoDevice

\* HomeAssistantError(f"{what} with serial '{serial}' not found")
NotFound(what, serial) == [what |-> what, serial |-> serial]

\* a slip: only the parent is looked up before the update
LinkErrorParentOnly(sub_serial, parent_serial) ==
    IF AsyncGetDevice(parent_serial) = NoDevice
    THEN NotFound("Parent panel", parent_serial)
    ELSE NoError

\* what handle_link_subpanel raises: the parent is looked up first, then
\* the sub-panel
LinkError(sub_serial, parent_serial) ==
    IF AsyncGetDevice(parent_serial) = NoDevice
    THEN NotFound("Parent panel", parent_serial)
    ELSE IF AsyncGetDevice(sub_serial) = NoDevice
    THEN NotFound("Sub-panel", sub_serial)
    ELSE NoError

\* handle_link_subpanel
HandleLinkSubpanel ==
    /\ dev_reg.updates < MaxLinks
    /\ \E sub_serial \in Serials, parent_serial \in Serials :
          LET error == LinkError(sub_serial, parent_serial)
          IN  /\ service_call' = [sub_serial |-> sub_serial,
                                  parent_serial |-> parent_serial,
                                  error |-> error]
              /\ IF error # NoError
                 THEN UNCHANGED dev_reg
                 ELSE dev_reg' =
                        [dev_reg EXCEPT !.via[sub_serial] = DeviceId(parent_serial),
                                        !.updates = @ + 1]
    /\ UNCHANGED <<sensorVars, panelVars, transportVars, loopVars, callerVars,
                   setupVars, hostVars, schema_doc, entity_specs,
                   entity_specs_again, attr_native_unit_of_measurement,
                   attr_options, attr_current_option>>

\* the setup of an entry registers its panel in the device registry
RegisterDevice ==
    /\ \E serial \in {"nt-2024-a1b2c", "nt-2024-d3e4f"} :
          /\ serial \notin dev_reg.devices
          /\ dev_reg' = [dev_reg EXCEPT !.devices = @ \cup {serial}]
    /\ UNCHANGED <<sensorVars, panelVars, transportVars, loopVars, callerVars,
                   setupVars, hostVars, schema_doc, entity_specs,
                   entity_specs_again, service_call,
                   attr_native_unit_of_measurement, attr_options,
                   attr_current_option>>

ServiceNext ==
    \/ HandleLinkSubpanel
    \/ RegisterDevice

SpecService == BridgeInit /\ [][ServiceNext]_vars

----------------------------------------------------------------------------
(* span_panel.py: set_property, called at any time in the bridge's life *)

\* a slip: only the Controller is looked at, not the device
HasConnectionIfStarted == controller # None

\* not (self._controller is None or self._device is None)
HasConnection == controller # None /\ device # None

\* what Controller.set_property returns
SdkResults == {"True", "False"}

\* set_property
SetProperty ==
    /\ commands.calls < MaxCommands
    /\ \E sdk \in SdkResults :
          commands' =
             IF HasConnection
             THEN [calls |-> commands.calls + 1,
                   forwarded |-> commands.forwarded + 1,
                   sdk_result |-> sdk,
                   result |-> sdk]
             ELSE [commands EXCEPT !.calls = @ + 1, !.result = "False"]
    /\ UNCHANGED <<sensorVars, panelVars, transportVars, loopVars, callerVars,
                   setupVars, ent_phase, spec_source_property_id,
                   attr_unique_id, configured, leaked,
                   toolVars>>

CommandNext ==
    \/ BridgeStart
    \/ BridgeStopBegin
    \/ BridgeStopEnd
    \/ BridgeStopUnstarted
    \/ BridgeLoopRun
    \/ BridgeDiscover
    \/ BridgeState
    \/ SetProperty

SpecCommand == BridgeInit /\ [][CommandNext]_vars

----------------------------------------------------------------------------
(* Claims about the value formatter (SpecSensor) *)

IsCounter ==
    /\ attr_state_class = "total_increasing"
    /\ attr_device_class \in NUMERIC_DEVICE_CLASSES

\* the number a wire value stands for on this entity (sign flip applied)
Reading(value) ==
    LET p == ParseFloat(Chars(value))
    IN  [ok |-> p.ok, n |-> IF spec_negate THEN 0 - p.n ELSE p.n]

AllNumeric(seq) == \A i \in 1..Len(seq) : Reading(seq[i]).ok

\* the highest reading of a non-empty all-numeric history
HighWater(seq) ==
    CHOOSE m \in {Reading(seq[i]).n : i \in 1..Len(seq)} :
        \A i \in 1..Len(seq) : Reading(seq[i]).n <= m

\* the reading a step delivers
StepReading == Reading(delivered'[Len(delivered')])

\* C1: on a TOTAL_INCREASING entity a reading below the value displayed so
\* far is not adopted: from one numeric displayed value to the next the
\* displayed value never decreases.
C1_CounterNeverDecreases ==
    [][(IsCounter /\ attr_native_value.k = "num" /\ attr_native_value'.k = "num")
        => attr_native_value'.n >= attr_native_value.n]_vars

\* the step delivers a reading below the displayed value while the last
\* reading before it was accepted (it is the displayed value)
FirstDecreaseOfEpisode ==
    /\ delivered # <<>>
    /\ attr_native_value.k = "num"
    /\ Reading(delivered[Len(delivered)]).ok
    /\ Reading(delivered[Len(delivered)]).n = attr_native_value.n
    /\ StepReading.ok
    /\ StepReading.n < attr_native_value.n

\* C2: on a TOTAL_INCREASING entity exactly one warning is logged per
\* suppression episode: one on the first suppressed reading after an accepted
\* reading, none on any other reading.
C2_WarnOncePerEpisode ==
    [][(IsCounter /\ delivered' # delivered)
        => log_warnings' = log_warnings + (IF FirstDecreaseOfEpisode THEN 1 ELSE 0)]_vars

\* the last reading of the history was below the high-water mark
Suppressing(seq) ==
    /\ Len(seq) >= 2
    /\ AllNumeric(seq)
    /\ Reading(seq[Len(seq)]).n < HighWater(seq)

\* C3: a TOTAL_INCREASING entity that is suppressing decreased readings holds
\* the high-water mark, and a reading equal to or above the high-water mark
\* is accepted: it becomes the displayed value (and the new high-water mark).
C3_CatchUpAccepted ==
    [][(/\ IsCounter
        /\ delivered' # delivered
        /\ Suppressing(delivered)
        /\ StepReading.ok
        /\ StepReading.n >= HighWater(delivered))
        => /\ attr_native_value = NumV(HighWater(delivered))
           /\ attr_native_value' = NumV(StepReading.n)
           /\ HighWater(delivered') = StepReading.n]_vars

----------------------------------------------------------------------------
(* Claims about the setup and its name wait (SpecSetup) *)

\* the unregister functions of the temporary subscribers of the name wait
NameWaitHandles == {r \in BagToSet(handles) : r.cb = "_on_name"}

\* C4: when _wait_for_circuit_names has returned, on any of its paths, no
\* temporary subscriber is left: each unregister function it was given has
\* been called, no list holds _on_name, and as the call returns the lists
\* hold the callbacks they held when it began.
C4_NoTemporarySubscriberLeft ==
    names_ok # None =>
        /\ \A r \in NameWaitHandles : r.calls >= 1
        /\ \A k \in Keys : ~InList(GetCallbacks(k), "_on_name")
        /\ pc = "map" => \A k \in Keys : GetCallbacks(k) = nw_before[k]

\* the wait has timed out after it registered a subscriber for each name
C4_Witness ==
    /\ pc = "map"
    /\ names_ok = "false"
    /\ Cardinality(NameWaitHandles) = 2

\* a property-changed call for the name of n is still on its way: stored
\* and not yet notified, scheduled on the loop, or being dispatched with
\* _on_name yet to be called
InFlight(n) ==
    \/ tpend.key = Key(n)
    \/ \E i \in 1..Len(queue) :
          queue[i].fn = "_dispatch_property_update" /\ queue[i].key = Key(n)
    \/ /\ cur.kind = "property"
       /\ cur.key = Key(n)
       /\ \E j \in (cur.i + 1)..Len(cur.snap) : cur.snap[j] = "_on_name"

\* C5: once the re-check is done, a missing name whose value has arrived
\* has its event set, or the property-changed call that will set it is still
\* on its way: no arrived name is lost to the wait, whatever the transport
\* thread did between the initial check and the registration.
C5_ArrivedNameIsObserved ==
    pc \in {"nw_gather", "nw_await"} =>
        \A n \in Range(missing) :
            GetPropertyValue(Key(n)) # None => (n \in events \/ InFlight(n))

\* the value of a missing name arrived and its property-changed call was
\* dropped, no subscriber being there yet; the re-check has set the event
C5_Witness ==
    /\ pc = "nw_gather"
    /\ \E n \in Range(missing) :
          /\ n \in events
          /\ GetPropertyValue(Key(n)) # None
          /\ ~InFlight(n)

\* C6: the wait returns True only with every requested name present, those
\* that were missing having had their event set (by the re-check or by
\* _on_name); it returns False only with the event of a missing name unset.
C6_WaitResult ==
    [][(names_ok = None /\ names_ok' # None) =>
          IF names_ok' = "true"
          THEN \A n \in Range(CircuitNodeIds(description)) :
                  /\ GetPropertyValue(Key(n)) # None
                  /\ n \in Range(missing') => n \in events
          ELSE \E n \in Range(missing) : n \notin events]_vars

\* the wait returned False with one name present and the other missing
C6_Witness ==
    /\ names_ok = "false"
    /\ pc = "map"
    /\ \E n \in NameNodes : GetPropertyValue(Key(n)) # None
    /\ \E n \in NameNodes : GetPropertyValue(Key(n)) = None

SetupAborting == pc \in {"abort_stop", "not_ready"}

NothingSetUp ==
    /\ ~mapped
    /\ ~registered
    /\ ~platforms
    /\ handles = EmptyBag
    /\ \A k \in Keys : GetCallbacks(k) = <<>>
    /\ availability_callbacks = <<>>
    /\ ready_callbacks = <<>>

\* C7: when the schema wait times out the setup aborts: it goes on to stop
\* the bridge and to raise not-ready, never to success; the bridge is
\* stopped when the error is raised; nothing is mapped, registered,
\* subscribed or forwarded on the way.
C7_SchemaTimeoutAborts ==
    [][/\ (pc = "wait_schema" /\ pc' # pc /\ ~description_received)
            => pc' = "abort_stop"
       /\ pc = "abort_stop" => pc' \in {"abort_stop", "not_ready"}
       /\ SetupAborting' => (NothingSetUp' /\ result' # "ok")
       /\ result' = "not_ready" =>
            /\ pc' = "not_ready"
            /\ controller' = None
            /\ ~transport_alive']_vars

\* the error has been raised after the schema wait timed out
C7_Witness ==
    /\ result = "not_ready"
    /\ description = None
    /\ ~description_received

SetupProceeding ==
    pc \in {"nw_check", "nw_register", "nw_recheck", "nw_gather", "nw_await",
            "map", "forward", "loaded", "unload_stop", "unloaded"}

\* C8: after a timeout of the ready wait or of the name wait the setup does
\* not abort: it stays on its way to the mapping and the platforms, it
\* never raises not-ready, and when it has returned it has returned success
\* with the description mapped and the platforms set up.
C8_LaterTimeoutsDoNotAbort ==
    warnings # {} =>
        /\ SetupProceeding
        /\ result # "not_ready"
        /\ pc \in {"forward", "loaded"} => (mapped /\ registered)
        /\ pc = "loaded" => (result = "ok" /\ platforms)

\* the setup has returned success after both later waits timed out
C8_Witness ==
    /\ pc = "loaded"
    /\ result = "ok"
    /\ warnings = {"ready", "names"}

----------------------------------------------------------------------------
(* Claims about the subscriber lists and the dispatch (SpecBridge) *)

HandlesOf(kind, key, cb) ==
    {r \in BagToSet(handles) : r.kind = kind /\ r.key = key /\ r.cb = cb}

\* a registration of the callback whose unregister function was not called
Outstanding(kind, key, cb) == \E r \in HandlesOf(kind, key, cb) : r.calls = 0

\* the unregister function of the callback has been called, and none of its
\* registrations under the key is outstanding
Unregistered(kind, key, cb) ==
    /\ \E r \in HandlesOf(kind, key, cb) : r.calls >= 1
    /\ ~Outstanding(kind, key, cb)

\* the dispatch in progress calls a callback in this step
Invoking == cur # NoDispatch /\ cur' # cur

\* C9 as claimed: once its unregister function has been called, a callback is
\* never called again by any dispatch, a dispatch in progress included.
C9_NeverInvokedAfterUnregister ==
    [][Invoking => ~Unregistered(cur.kind, cur.key, NextCallback)]_vars

\* C9 amended: a dispatch that starts (takes its snapshot) after the
\* unregister call, one scheduled earlier included, does not call the
\* callback: its snapshot holds no unregistered callback.
C9_SnapshotHasNoUnregistered ==
    (cur # NoDispatch /\ cur.i = 0)
        => \A j \in 1..Len(cur.snap) :
              ~Unregistered(cur.kind, cur.key, cur.snap[j])

\* a dispatch has started for a key one of whose callbacks was unregistered
C9_Witness ==
    /\ cur # NoDispatch
    /\ cur.i = 0
    /\ \E cb \in Callbacks : Unregistered(cur.kind, cur.key, cb)

SubscriberLists ==
    <<property_callbacks, availability_callbacks, ready_callbacks>>

\* the list an unregister function works on, before and after the step
OwnList(r) ==
    CASE r.kind = "property" -> GetCallbacks(r.key)
      [] r.kind = "availability" -> availability_callbacks
      [] r.kind = "ready" -> ready_callbacks

OwnListAfter(r) ==
    CASE r.kind = "property" ->
            IF r.key \in DOMAIN property_callbacks' THEN property_callbacks'[r.key]
            ELSE <<>>
      [] r.kind = "availability" -> availability_callbacks'
      [] r.kind = "ready" -> ready_callbacks'

Others(list, cb) == SelectSeq(list, LAMBDA c : c # cb)

\* C10 as claimed: a repeated call of an unregister function is a no-op: it
\* leaves every subscriber list unchanged.
C10_RepeatedUnregisterIsNoOp ==
    [][\A r \in BagToSet(handles) :
          (r.calls >= 1 /\ Unregister(r)) => UNCHANGED SubscriberLists]_vars

\* C10 amended: a call of an unregister function is a no-op when its callback
\* is absent from its list (lists cleared by stop included), and a repeated
\* call is a no-op unless another registration of the same callback under
\* the same key is outstanding; no call touches another key or list, nor a
\* callback of another identity in its own list.
C10_UnregisterTouchesOnlyOwnCallback ==
    [][\A r \in BagToSet(handles) :
          Unregister(r) =>
            /\ ~InList(OwnList(r), r.cb) => UNCHANGED SubscriberLists
            /\ (r.calls >= 1 /\ ~Outstanding(r.kind, r.key, r.cb))
                  => UNCHANGED SubscriberLists
            /\ \A k \in Keys :
                  (r.kind # "property" \/ k # r.key)
                     => /\ (k \in DOMAIN property_callbacks') =
                              (k \in DOMAIN property_callbacks)
                        /\ k \in DOMAIN property_callbacks
                              => property_callbacks'[k] = property_callbacks[k]
            /\ r.kind # "availability"
                  => availability_callbacks' = availability_callbacks
            /\ r.kind # "ready" => ready_callbacks' = ready_callbacks
            /\ Others(OwnListAfter(r), r.cb) = Others(OwnList(r), r.cb)
            /\ Len(OwnListAfter(r)) >= Len(OwnList(r)) - 1]_vars

\* an unregister function has been called twice and the bridge was stopped
C10_Witness ==
    /\ phase = "stopped"
    /\ \E r \in BagToSet(handles) : r.calls = 2

\* C11: a callback that raises does not stop its dispatch: whether the
\* callback returned or raised, the dispatch goes on to the next callback of
\* its snapshot, and it ends only after the last one; the exception is
\* counted by the dispatch function and goes no further.
C11_RaisingCallbackDoesNotStopDispatch ==
    [][Invoking =>
          IF cur.i + 1 = Len(cur.snap)
          THEN cur' = NoDispatch
          ELSE /\ cur'.kind = cur.kind
               /\ cur'.key = cur.key
               /\ cur'.snap = cur.snap
               /\ cur'.i = cur.i + 1
               /\ cur'.errs >= cur.errs]_vars

\* a callback has raised and the dispatch is about to call the next one
C11_Witness ==
    /\ cur # NoDispatch
    /\ cur.errs >= 1
    /\ cur.i < Len(cur.snap)

----------------------------------------------------------------------------
(* Claims about the life of the bridge within a config entry (SpecSetup) *)

\* C12: in every reachable state the availability flag is true only if the
\* lifecycle state last handed to the bridge is ready and the bridge has not
\* been stopped.
C12_AvailableOnlyWhileReady ==
    available => (dev_state = "ready" /\ phase # "stopped")

\* the flag has been raised by a state change into ready, whose
\* availability dispatch is still scheduled, after a description arrived
C12_Witness ==
    /\ available
    /\ dev_description # None
    /\ \E i \in 1..Len(queue) :
          queue[i].fn = "_dispatch_availability" /\ queue[i].flag

\* the _dispatch_ready calls scheduled on the loop
ReadyScheduled(q) ==
    Cardinality({i \in 1..Len(q) : q[i].fn = "_dispatch_ready"})

\* the loop starts the _dispatch_ready call at the head of its queue
StartsReadyDispatch ==
    /\ cur = NoDispatch
    /\ queue # <<>>
    /\ Head(queue).fn = "_dispatch_ready"
    /\ queue' = Tail(queue)

\* C13: every entry of the device into ready, the first and each later one,
\* schedules one _dispatch_ready; the dispatch, when the loop starts it, takes
\* every ready subscriber registered then and calls them one by one; and
\* under the loop's scheduling every scheduled _dispatch_ready is started and
\* every started one runs to its end.
C13_EveryReadyEntryFiresReadySubscribers ==
    /\ [][/\ (dev_state # "ready" /\ dev_state' = "ready")
                => ReadyScheduled(queue') = ReadyScheduled(queue) + 1
          /\ StartsReadyDispatch
                => IF ready_callbacks = <<>> THEN cur' = NoDispatch
                   ELSE /\ cur'.kind = "ready"
                        /\ cur'.snap = ready_callbacks
                        /\ cur'.i = 0
          /\ (cur.kind = "ready" /\ cur' # cur)
                => \/ cur' = [cur EXCEPT !.i = @ + 1]
                   \/ cur' = NoDispatch /\ cur.i + 1 = Len(cur.snap)]_vars
    /\ (ReadyScheduled(queue) > 0) ~> (ReadyScheduled(queue) = 0)
    /\ (cur.kind = "ready") ~> (cur = NoDispatch)

\* the device has come back to ready after an interval in which it was not:
\* the gate was set by an earlier entry, the flag has just been raised again,
\* and the dispatch for the subscriber _on_ready is scheduled
C13_Witness ==
    /\ device_ready
    /\ ready_callbacks = <<"_on_ready">>
    /\ Len(queue) = 3
    /\ queue[1].fn = "_dispatch_availability" /\ queue[1].flag
    /\ queue[3].fn = "_dispatch_ready"

----------------------------------------------------------------------------
(* Claims about an entity on a loaded bridge (SpecEntity) *)

\* the value of the dispatch in progress, while _on_value_update is still to
\* be called by it
InDispatch ==
    IF /\ cur # NoDispatch
       /\ cur.kind = "property"
       /\ cur.key = EntityKey
       /\ \E j \in (cur.i + 1)..Len(cur.snap) : cur.snap[j] = "_on_value_update"
    THEN <<cur.value>>
    ELSE <<>>

IsOwnDispatch(item) ==
    item.fn = "_dispatch_property_update" /\ item.key = EntityKey

\* the values of the dispatches scheduled for the entity's key, in the
\* order of the loop's queue
Scheduled ==
    LET f == SelectSeq(queue, IsOwnDispatch)
    IN  [j \in 1..Len(f) |-> f[j].value]

\* what the subscriber has received, followed by what it is still to receive
Stream == delivered \o InDispatch \o Scheduled

\* C14: while _on_value_update stays registered under its key, the values it
\* receives are the values of the property-changed notifications in the
\* order the transport thread scheduled them: a notification adds its value
\* at the end of what is scheduled, a delivery moves the first scheduled
\* value to the end of what was received, and nothing else changes either,
\* so no value is received twice, skipped, or received out of order.
C14_DeliveredInScheduledOrder ==
    [][(ent_phase = "added" /\ ent_phase' = "added")
         => /\ IF tpend # NoPend /\ tpend' = NoPend
               THEN Stream' = Append(Stream, tpend.value)
               ELSE Stream' = Stream
            /\ \/ delivered' = delivered
               \/ /\ InDispatch # <<>>
                  /\ delivered' = Append(delivered, InDispatch[1])]_vars

\* the subscriber has received two notifications with different values
\* (after the value read when the entity was added)
C14_Witness ==
    /\ ent_phase = "added"
    /\ Len(delivered) = 3
    /\ delivered[2] # delivered[3]
    /\ queue = <<>>

\* the entity exists: its constructor returned
EntityExists == ent_phase \in {"constructed", "registered", "added", "removed"}

\* C20: an entity built from a descriptor with an alias source exists, has a
\* unique id made of its own property id and not of the wire property id,
\* and while it is added its _on_value_update is subscribed under
\* (node, wire property).
C20_AliasSubscribesUnderWireProperty ==
    spec_source_property_id # None =>
        /\ EntityExists
        /\ attr_unique_id = MakeUniqueId("serial", "c1", "generation-power")
        /\ ent_phase \in {"registered", "added"} =>
               InList(GetCallbacks(<<"c1", spec_source_property_id>>),
                      "_on_value_update")

----------------------------------------------------------------------------
(* Claims about the transport thread (SpecSetup) *)

\* a step of the transport thread: a message is taken in (a callback of the
\* first three kinds runs, or the device object stores a value), or the
\* property-changed callback runs
MessageStep == tcount' = tcount + 1
NotifyStep == tpend # NoPend /\ tpend' = NoPend

\* what the loop owns: the subscriber lists, the gates, the dispatch in
\* progress, and the unregister functions handed out
LoopOwned ==
    <<property_callbacks, availability_callbacks, ready_callbacks,
      description_received, device_ready, cur, handles>>

\* C15 as claimed: a transport callback reads no subscriber list; the
\* property-changed callback for the panel's own serial number hands off to
\* the loop whatever the subscriber lists hold.
C15_PropertyChangedAlwaysHandsOff ==
    [][NotifyStep =>
         queue' = Append(queue, QItem("_dispatch_property_update", tpend.key,
                                       tpend.value, FALSE))]_vars

\* C15 amended: a step of the transport thread changes no subscriber list,
\* sets no gate and calls no subscriber; it only adds scheduled calls at the
\* end of the loop's queue (and writes the device and availability fields).
\* The property-changed callback does read the subscriber list of its key
\* on the transport thread: it schedules its dispatch when the list is not
\* empty and schedules nothing when it is.
C15_TransportOnlyHandsOff ==
    [][/\ (MessageStep \/ NotifyStep) =>
            /\ UNCHANGED LoopOwned
            /\ Len(queue') >= Len(queue)
            /\ SubSeq(queue', 1, Len(queue)) = queue
       /\ NotifyStep =>
            queue' = IF GetCallbacks(tpend.key) # <<>>
                     THEN Append(queue, QItem("_dispatch_property_update",
                                              tpend.key, tpend.value, FALSE))
                     ELSE queue]_vars

\* the transport thread has scheduled the setting of the schema gate, which
\* the loop has not run yet, and is in the property-changed callback for a
\* key without subscribers
C15_Witness ==
    /\ tpend # NoPend
    /\ GetCallbacks(tpend.key) = <<>>
    /\ ~description_received
    /\ \E i \in 1..Len(queue) : queue[i].fn = "description_received.set"

----------------------------------------------------------------------------
(* Claims about stop and commands (SpecBridge) *)

\* no device and no transport connection is held, the flag is false
Closed ==
    /\ controller = None
    /\ device = None
    /\ ~available
    /\ ~transport_alive

\* the three kinds of subscriber list are empty
NoSubscribers ==
    /\ \A k \in DOMAIN property_callbacks : property_callbacks[k] = <<>>
    /\ availability_callbacks = <<>>
    /\ ready_callbacks = <<>>

RegisterCalled == BagCardinality(handles') > BagCardinality(handles)

\* C16: when async_stop completes the three subscriber lists are empty, the
\* availability flag is false, no device and no transport connection is held
\* and no dispatch is in progress; the bridge stays that way; and, unless a
\* register operation is called after the stop, the lists stay empty and the
\* dispatches still waiting on the loop call nobody when they run.
C16_StopLeavesNothingBehind ==
    [][/\ (phase # "stopped" /\ phase' = "stopped")
            => (Closed' /\ NoSubscribers' /\ cur' = NoDispatch)
       /\ phase = "stopped" => (phase' = "stopped" /\ Closed')
       /\ (phase = "stopped" /\ NoSubscribers /\ cur = NoDispatch
              /\ ~RegisterCalled)
            => (NoSubscribers' /\ cur' = NoDispatch)]_vars

\* the bridge is stopped with a property dispatch still waiting on the
\* loop, scheduled for a subscriber that never unregistered and that the
\* stop has removed
C16_Witness ==
    /\ phase = "stopped"
    /\ NoSubscribers
    /\ \E i \in 1..Len(queue) :
          /\ queue[i].fn = "_dispatch_property_update"
          /\ \E r \in BagToSet(handles) :
                r.kind = "property" /\ r.key = queue[i].key /\ r.calls = 0

\* a call of set_property has returned
CommandReturns == commands'.calls = commands.calls + 1

\* C17: a call of set_property made before the bridge is started, before a
\* device is discovered, or after the bridge is stopped returns False and
\* nothing is forwarded to the Controller; any other call forwards exactly
\* one Controller.set_property and returns what that returned.
C17_SetPropertyNeedsConnection ==
    [][CommandReturns =>
         IF phase = "created" \/ device = None \/ phase = "stopped"
         THEN /\ commands'.result = "False"
              /\ commands'.forwarded = commands.forwarded
              /\ commands'.sdk_result = commands.sdk_result
         ELSE /\ commands'.forwarded = commands.forwarded + 1
              /\ commands'.sdk_result \in SdkResults
              /\ commands'.result = commands'.sdk_result]_vars

\* one call was forwarded and returned True, a later one found the bridge
\* stopped and returned False
C17_Witness ==
    /\ phase = "stopped"
    /\ commands.calls = 2
    /\ commands.forwarded = 1
    /\ commands.sdk_result = "True"
    /\ commands.result = "False"

----------------------------------------------------------------------------
(* Claims about schema redelivery (SpecSetup) *)

\* the schema-received callback runs for a device whose schema was
\* received before
Redelivery ==
    /\ dev_description # None
    /\ MessageStep
    /\ Len(queue') = Len(queue) + 1
    /\ queue'[Len(queue')].fn = "description_received.set"

\* C18: a second or later schema-received callback leaves the property,
\* availability and ready subscriber lists as they are and makes the
\* delivered document, whole, the one the bridge returns; and a
\* property-changed notification for a key with subscribers, after a
\* redelivery as before it, schedules its dispatch to them.
C18_RedeliveryKeepsSubscriptions ==
    [][/\ Redelivery =>
            /\ UNCHANGED <<property_callbacks, availability_callbacks,
                           ready_callbacks>>
            /\ PanelDescription' = dev_description'
            /\ PanelDescription' # None
       /\ (NotifyStep /\ GetCallbacks(tpend.key) # <<>>) =>
            /\ Len(queue') = Len(queue) + 1
            /\ queue'[Len(queue')] =
                  QItem("_dispatch_property_update", tpend.key, tpend.value,
                        FALSE)]_vars

\* the schema was redelivered with another document than the one the entry
\* was set up from, and a property-changed notification that came after
\* the redelivery is scheduled for the subscribers of its key
C18_Witness ==
    /\ description # None
    /\ PanelDescription # description
    /\ \E i, j \in 1..Len(queue) :
          /\ i < j
          /\ queue[i].fn = "description_received.set"
          /\ queue[j].fn = "_dispatch_property_update"
          /\ GetCallbacks(queue[j].key) # <<>>

----------------------------------------------------------------------------
(* Claims about the config entry (SpecEntry) *)

\* the bridges of the panel that have been started and not stopped: the
\* unreferenced ones and the entry's current one
LiveBridges == leaked + (IF controller # None \/ transport_alive THEN 1 ELSE 0)

\* C19: through setup, abort and retry, unload and reload, at most one
\* bridge of the panel is started and not yet stopped.
C19_AtMostOneLiveBridge == LiveBridges <= 1

\* a bridge is started and waits for the schema after an earlier bridge of
\* the entry, which had received messages, was stopped and replaced
C19_Witness ==
    /\ pc = "wait_schema"
    /\ controller # None
    /\ dev_state = None
    /\ tcount > 0
    /\ LiveBridges = 1

----------------------------------------------------------------------------
(* Claims about the link_subpanel service (SpecService) *)

Registered(serial) == serial \in dev_reg.devices

\* a call of the service has returned or raised
ServiceCalled ==
    service_call' # service_call \/ dev_reg'.updates # dev_reg.updates

\* C21: a link_subpanel call whose parent or sub-panel serial number is not
\* in the registry raises an error that names a serial number of the call
\* that is not in the registry, and leaves the registry as it is; a call
\* whose serial numbers are both in the registry raises nothing and makes
\* exactly one update, which sets the parent of the sub-panel.
C21_LinkRejectsUnknownIdentities ==
    [][ServiceCalled =>
         LET c == service_call'
         IN  IF Registered(c.parent_serial) /\ Registered(c.sub_serial)
             THEN /\ c.error = NoError
                  /\ dev_reg'.updates = dev_reg.updates + 1
                  /\ dev_reg'.devices = dev_reg.devices
                  /\ dev_reg'.via =
                        [dev_reg.via EXCEPT ![c.sub_serial] =
                                               DeviceId(c.parent_serial)]
             ELSE /\ c.error # NoError
                  /\ c.error.serial \in {c.parent_serial, c.sub_serial}
                  /\ ~Registered(c.error.serial)
                  /\ c.error.what =
                        (IF c.error.serial = c.parent_serial
                            /\ ~Registered(c.parent_serial)
                         THEN "Parent panel" ELSE "Sub-panel")
                  /\ dev_reg' = dev_reg]_vars

\* a sub-panel was linked to its parent, and a later call naming a serial
\* number not in the registry as the sub-panel was rejected
C21_Witness ==
    /\ dev_reg.updates = 1
    /\ dev_reg.via["nt-2024-d3e4f"] = DeviceId("nt-2024-a1b2c")
    /\ service_call.error = NotFound("Sub-panel", "nt-9999-missing")

----------------------------------------------------------------------------
(* node_mappers.py: strings *)

Min(a, b) == IF a < b THEN a ELSE b

\* sub in s
Contains(sub, s) ==
    \E i \in 1..(Len(s) - Len(sub) + 1) : SubSeq(s, i, i + Len(sub) - 1) = sub

\* s[:n]
Prefix(s, n) == SubSeq(s, 1, Min(n, Len(s)))

\* s.replace(a, b) for single characters
RECURSIVE Replace(_, _, _)
Replace(s, a, b) ==
    IF s = "" THEN ""
    ELSE (IF SubSeq(s, 1, 1) = a THEN b ELSE SubSeq(s, 1, 1))
         \o Replace(SubSeq(s, 2, Len(s)), a, b)

\* s.split(sep) for a single character sep: a sequence of strings
RECURSIVE Split(_, _)
Split(s, sep) ==
    LET hits == {i \in 1..Len(s) : SubSeq(s, i, i) = sep}
    IN  IF hits = {} THEN <<s>>
        ELSE LET i == CHOOSE h \in hits : \A g \in hits : h <= g
             IN  <<SubSeq(s, 1, i - 1)>> \o Split(SubSeq(s, i + 1, Len(s)), sep)

\* s.strip(), the blank being the only whitespace of the model
RECURSIVE Strip(_)
Strip(s) ==
    IF s = "" THEN ""
    ELSE IF SubSeq(s, 1, 1) = " " THEN Strip(SubSeq(s, 2, Len(s)))
    ELSE IF SubSeq(s, Len(s), Len(s)) = " " THEN Strip(SubSeq(s, 1, Len(s) - 1))
    ELSE s

LowerCase == <<"a", "b", "c", "d", "e", "f", "g", "h", "i", "j", "k", "l", "m",
               "n", "o", "p", "q", "r", "s", "t", "u", "v", "w", "x", "y", "z">>
UpperCase == <<"A", "B", "C", "D", "E", "F", "G", "H", "I", "J", "K", "L", "M",
               "N", "O", "P", "Q", "R", "S", "T", "U", "V", "W", "X", "Y", "Z">>

IsLetter(c) == \E i \in 1..26 : LowerCase[i] = c \/ UpperCase[i] = c

Upper(c) ==
    IF \E i \in 1..26 : LowerCase[i] = c
    THEN UpperCase[CHOOSE i \in 1..26 : LowerCase[i] = c] ELSE c

Lower(c) ==
    IF \E i \in 1..26 : UpperCase[i] = c
    THEN LowerCase[CHOOSE i \in 1..26 : UpperCase[i] = c] ELSE c

\* str.title(): a letter after a non-letter is upper case, a letter after a
\* letter lower case
RECURSIVE TitleFrom(_, _)
TitleFrom(s, after_letter) ==
    IF s = "" THEN ""
    ELSE LET c == SubSeq(s, 1, 1)
         IN  (IF after_letter THEN Lower(c) ELSE Upper(c))
             \o TitleFrom(SubSeq(s, 2, Len(s)), IsLetter(c))

Title(s) == TitleFrom(s, FALSE)

\* " ".join(parts)
RECURSIVE Join(_)
Join(parts) ==
    IF parts = <<>> THEN ""
    ELSE IF Len(parts) = 1 THEN parts[1]
    ELSE parts[1] \o " " \o Join(Tail(parts))

\* _ABBREVIATIONS.get(p, p.title())
Abbreviation(p) ==
    CASE p = "pv" -> "PV"
      [] p = "ev" -> "EV"
      [] p = "soc" -> "SOC"
      [] p = "soe" -> "SOE"
      [] p = "pcs" -> "PCS"
      [] OTHER -> Title(p)

\* _humanize
Humanize(prop_id) ==
    LET parts == Split(Replace(prop_id, "_", "-"), "-")
    IN  Join([i \in 1..Len(parts) |-> Abbreviation(parts[i])])

\* [x for x in seq if x != ""]
RECURSIVE NonEmpty(_)
NonEmpty(seq) ==
    IF seq = <<>> THEN <<>>
    ELSE (IF seq[1] = "" THEN <<>> ELSE <<seq[1]>>) \o NonEmpty(Tail(seq))

\* _parse_enum_format
ParseEnumFormat(fmt) ==
    IF fmt = "" THEN <<>>
    ELSE LET vs == Split(fmt, ",")
         IN  NonEmpty([i \in 1..Len(vs) |-> Strip(vs[i])])

----------------------------------------------------------------------------
(* node_mappers.py: the descriptor and the rule sets *)

\* a property of the schema: its id and its description; unit, datatype and
\* format are None where the description has no such key
Prop(id, unit, datatype, format, settable) ==
    [id |-> id, unit |-> unit, datatype |-> datatype, format |-> format,
     settable |-> settable]

\* prop_desc.get(key, default)
Get(value, default) == IF value = None THEN default ELSE value

\* EntitySpec(platform, node_id, property_id, name) with every default
EntitySpec(platform, node_id, prop_id, name) ==
    [platform |-> platform, node_id |-> node_id, property_id |-> prop_id,
     name |-> name, device_class |-> None, state_class |-> None,
     native_unit |-> None, entity_category |-> None, options |-> <<>>,
     negate |-> FALSE, icon |-> None, settable |-> FALSE, on_values |-> {},
     node_type |-> "", device_name |-> ""]

\* the sensor descriptors with a device class, a state class and a unit
Measured(node_id, prop_id, name, device_class, state_class, native_unit) ==
    [EntitySpec("sensor", node_id, prop_id, name) EXCEPT
        !.device_class = device_class, !.state_class = state_class,
        !.native_unit = native_unit]

\* the descriptors with entity_category=EntityCategory.DIAGNOSTIC
Diagnostic(spec) == [spec EXCEPT !.entity_category = "diagnostic"]

\* unit in ("W", "kW") or "power" in prop_id
IsPower(unit, prop_id) == unit \in {"W", "kW"} \/ Contains("power", prop_id)

\* unit == "Wh" or "energy" in prop_id
IsEnergy(unit, prop_id) == unit = "Wh" \/ Contains("energy", prop_id)

\* the power descriptor of the generic branches
PowerSpec(node_id, prop_id, name, unit) ==
    Measured(node_id, prop_id, name, "power", "measurement",
             IF unit = "kW" THEN "kW" ELSE "W")

\* the energy descriptor: ENERGY, TOTAL_INCREASING, watt-hours
EnergySpec(node_id, prop_id, name) ==
    Measured(node_id, prop_id, name, "energy", "total_increasing", "Wh")

\* a slip: the circuit's energy names the other way round
CircuitEnergyNameSwapped(prop_id) ==
    IF Contains("exported", prop_id) THEN "Energy Returned" ELSE "Energy"

\* name = "Energy" if "exported" in prop_id else "Energy Returned"
CircuitEnergyName(prop_id) ==
    IF Contains("exported", prop_id) THEN "Energy" ELSE "Energy Returned"

\* a slip: the circuit's power descriptor takes the schema's unit and keeps
\* the sign
CircuitPowerSpecAsDeclared(node_id, prop) ==
    PowerSpec(node_id, prop.id, "Power", Get(prop.unit, ""))

\* the circuit's active-power descriptor: watts whatever the schema says,
\* negated
CircuitPowerSpec(node_id, prop) ==
    [Measured(node_id, prop.id, "Power", "power", "measurement", "W")
        EXCEPT !.negate = TRUE]

\* _map_circuit_properties, one turn of its loop: the descriptors appended
MapCircuitProperty(node_id, prop) ==
    LET prop_id == prop.id
        settable == prop.settable
    IN  CASE prop_id = "relay" ->
               <<[EntitySpec("switch", node_id, prop_id, "Relay") EXCEPT
                    !.settable = settable, !.icon = "mdi:electric-switch"]>>
          [] prop_id = "shed-priority" ->
               <<[EntitySpec("select", node_id, prop_id, "Shed Priority")
                    EXCEPT !.settable = settable,
                           !.options = ParseEnumFormat(Get(prop.format, "")),
                           !.icon = "mdi:priority-high"]>>
          [] prop_id = "pcs-priority" ->
               <<[EntitySpec("sensor", node_id, prop_id, "PCS Priority")
                    EXCEPT !.icon = "mdi:priority-high"]>>
          [] prop_id = "active-power" -> <<CircuitPowerSpec(node_id, prop)>>
          [] prop_id = "current" ->
               <<Measured(node_id, prop_id, "Current", "current",
                          "measurement", "A")>>
          [] prop_id \in {"imported-energy", "exported-energy"} ->
               <<EnergySpec(node_id, prop_id, CircuitEnergyName(prop_id))>>
          [] prop_id = "breaker-rating" ->
               <<Diagnostic(Measured(node_id, prop_id, "Breaker Rating",
                                     "current", None, "A"))>>
          [] prop_id = "space" ->
               <<Diagnostic(EntitySpec("sensor", node_id, prop_id, "Space"))>>
          [] prop_id \in {"dipole", "pcs-managed", "sheddable", "never-backup",
                          "always-on"} ->
               <<Diagnostic(EntitySpec("binary_sensor", node_id, prop_id,
                                       Humanize(prop_id)))>>
          [] prop_id = "relay-requester" ->
               <<Diagnostic(EntitySpec("sensor", node_id, prop_id,
                                       "Relay Requester"))>>
          [] OTHER -> <<>>

\* _map_power_flow_properties, one turn of its loop
MapPowerFlowProperty(node_id, prop) ==
    LET prop_id == prop.id
        unit == Get(prop.unit, "")
        name == Humanize(prop_id)
    IN  IF IsPower(unit, prop_id)
        THEN <<PowerSpec(node_id, prop_id, name, unit)>>
        ELSE IF IsEnergy(unit, prop_id)
        THEN <<EnergySpec(node_id, prop_id, name)>>
        ELSE <<EntitySpec("sensor", node_id, prop_id, name)>>

\* a slip: the lugs' energy names follow the circuits' direction
LugEnergyNameAsCircuit(prop_id, is_upstream) ==
    IF prop_id = "exported-energy"
    THEN (IF is_upstream THEN "Energy" ELSE "Downstream Energy")
    ELSE (IF is_upstream THEN "Energy Returned"
          ELSE "Downstream Energy Returned")

\* the names of the two energy descriptors of a lug node
LugEnergyName(prop_id, is_upstream) ==
    IF prop_id = "imported-energy"
    THEN (IF is_upstream THEN "Energy" ELSE "Downstream Energy")
    ELSE (IF is_upstream THEN "Energy Returned"
          ELSE "Downstream Energy Returned")

\* _map_lug_properties, one turn of its loop
MapLugProperty(node_id, prop) ==
    LET prop_id == prop.id
        unit == Get(prop.unit, "")
        is_upstream == Contains("upstream", node_id)
        direction == IF is_upstream THEN "Upstream" ELSE "Downstream"
    IN  IF prop_id \in {"direction", "feed"}
        THEN <<Diagnostic(EntitySpec("sensor", node_id, prop_id,
                              direction \o " " \o Humanize(prop_id)))>>
        ELSE IF prop_id \in {"imported-energy", "exported-energy"}
        THEN <<EnergySpec(node_id, prop_id,
                          LugEnergyName(prop_id, is_upstream))>>
        ELSE IF IsPower(unit, prop_id)
        THEN <<PowerSpec(node_id, prop_id,
                         IF is_upstream THEN "Power" ELSE "Downstream Power",
                         unit)>>
        ELSE IF unit = "A"
        THEN <<Measured(node_id, prop_id,
                        direction \o " " \o Humanize(prop_id),
                        "current", "measurement", "A")>>
        ELSE <<>>

\* the descriptors of the prop_map tables that are diagnostic sensors with
\* a name only
DiagnosticSensor(node_id, prop_id, name) ==
    Diagnostic(EntitySpec("sensor", node_id, prop_id, name))

\* the binary sensors of the core's prop_map
CoreBinary(node_id, prop_id, name, device_class) ==
    [EntitySpec("binary_sensor", node_id, prop_id, name) EXCEPT
        !.device_class = device_class]

\* _map_core_properties, one turn of its loop: prop_map, then the options
\* of a select
MapCoreProperty(node_id, prop) ==
    LET prop_id == prop.id
    IN  CASE prop_id = "door" ->
               <<[CoreBinary(node_id, prop_id, "Door", "tamper") EXCEPT
                    !.on_values = {"OPEN"}]>>
          [] prop_id = "ethernet" ->
               <<Diagnostic(CoreBinary(node_id, prop_id, "Ethernet",
                                       "connectivity"))>>
          [] prop_id = "wifi" ->
               <<Diagnostic(CoreBinary(node_id, prop_id, "Wi-Fi",
                                       "connectivity"))>>
          [] prop_id = "cellular" ->
               <<Diagnostic(CoreBinary(node_id, prop_id, "Cellular",
                                       "connectivity"))>>
          [] prop_id = "software-version" ->
               <<DiagnosticSensor(node_id, prop_id, "Firmware Version")>>
          [] prop_id = "hardware-version" ->
               <<DiagnosticSensor(node_id, prop_id, "Hardware Version")>>
          [] prop_id = "dominant-power-source" ->
               <<[EntitySpec("select", node_id, prop_id,
                             "Dominant Power Source") EXCEPT
                    !.icon = "mdi:lightning-bolt", !.settable = TRUE,
                    !.options = ParseEnumFormat(Get(prop.format, ""))]>>
          [] prop_id = "relay" ->
               <<[EntitySpec("binary_sensor", node_id, prop_id, "Main Relay")
                    EXCEPT !.icon = "mdi:electric-switch",
                           !.on_values = {"CLOSED"}]>>
          [] prop_id = "l1-voltage" ->
               <<Measured(node_id, prop_id, "L1 Voltage", "voltage",
                          "measurement", "V")>>
          [] prop_id = "l2-voltage" ->
               <<Measured(node_id, prop_id, "L2 Voltage", "voltage",
                          "measurement", "V")>>
          [] prop_id = "breaker-rating" ->
               <<Diagnostic(Measured(node_id, prop_id, "Main Breaker Rating",
                                     "current", None, "A"))>>
          [] prop_id = "grid-islandable" ->
               <<Diagnostic(EntitySpec("binary_sensor", node_id, prop_id,
                                       "Grid Islandable"))>>
          [] prop_id = "wifi-ssid" ->
               <<DiagnosticSensor(node_id, prop_id, "Wi-Fi SSID")>>
          [] prop_id = "vendor-cloud" ->
               <<DiagnosticSensor(node_id, prop_id, "Cloud Connection")>>
          [] prop_id = "vendor-name" ->
               <<DiagnosticSensor(node_id, prop_id, "Vendor")>>
          [] prop_id = "serial-number" ->
               <<DiagnosticSensor(node_id, prop_id, "Serial Number")>>
          [] prop_id = "postal-code" ->
               <<DiagnosticSensor(node_id, prop_id, "Postal Code")>>
          [] prop_id = "time-zone" ->
               <<DiagnosticSensor(node_id, prop_id, "Time Zone")>>
          [] OTHER -> <<>>

\* the entries the prop_map tables of bess, pv and evse have in common
VendorProperty(node_id, prop_id) ==
    CASE prop_id = "vendor-name" ->
           <<DiagnosticSensor(node_id, prop_id, "Vendor")>>
      [] prop_id = "product-name" ->
           <<DiagnosticSensor(node_id, prop_id, "Product")>>
      [] prop_id = "serial-number" ->
           <<DiagnosticSensor(node_id, prop_id, "Serial Number")>>
      [] prop_id = "software-version" ->
           <<DiagnosticSensor(node_id, prop_id, "Firmware Version")>>
      [] prop_id = "feed" ->
           <<DiagnosticSensor(node_id, prop_id, "Feed Circuit")>>

VendorProperties == {"vendor-name", "product-name", "serial-number",
                     "software-version", "feed"}

\* _map_bess_properties, one turn of its loop
MapBessProperty(node_id, prop) ==
    LET prop_id == prop.id
    IN  CASE prop_id = "soc" ->
               <<Measured(node_id, prop_id, "State of Charge", "battery",
                          "measurement", "%")>>
          [] prop_id = "soe" ->
               <<Measured(node_id, prop_id, "State of Energy",
                          "energy_storage", "measurement", "kWh")>>
          [] prop_id = "connected" ->
               <<CoreBinary(node_id, prop_id, "Connected", "connectivity")>>
          [] prop_id = "grid-state" ->
               <<[EntitySpec("sensor", node_id, prop_id, "Grid State") EXCEPT
                    !.icon = "mdi:transmission-tower"]>>
          [] prop_id \in VendorProperties -> VendorProperty(node_id, prop_id)
          [] prop_id = "model" ->
               <<DiagnosticSensor(node_id, prop_id, "Model")>>
          [] prop_id = "relative-position" ->
               <<DiagnosticSensor(node_id, prop_id, "Relative Position")>>
          [] prop_id = "nameplate-capacity" ->
               <<Diagnostic(Measured(node_id, prop_id, "Nameplate Capacity",
                     "energy_storage", None,
                     IF Get(prop.unit, "kWh") = "kWh" THEN "kWh" ELSE "Wh"))>>
          [] OTHER ->
               IF IsPower(Get(prop.unit, ""), prop_id)
               THEN <<PowerSpec(node_id, prop_id, Humanize(prop_id),
                                Get(prop.unit, ""))>>
               ELSE <<>>

\* _map_pv_properties, one turn of its loop
MapPvProperty(node_id, prop) ==
    LET prop_id == prop.id
        unit == Get(prop.unit, "")
    IN  CASE prop_id \in VendorProperties -> VendorProperty(node_id, prop_id)
          [] prop_id = "relative-position" ->
               <<DiagnosticSensor(node_id, prop_id, "Relative Position")>>
          [] prop_id = "nameplate-capacity" ->
               <<Diagnostic(Measured(node_id, prop_id, "Nameplate Capacity",
                     "power", None,
                     IF Get(prop.unit, "kW") = "kW" THEN "kW" ELSE "W"))>>
          [] OTHER ->
               IF IsPower(unit, prop_id)
               THEN <<PowerSpec(node_id, prop_id, Humanize(prop_id), unit)>>
               ELSE IF IsEnergy(unit, prop_id)
               THEN <<EnergySpec(node_id, prop_id, Humanize(prop_id))>>
               ELSE <<>>

\* _map_evse_properties, one turn of its loop
MapEvseProperty(node_id, prop) ==
    LET prop_id == prop.id
        unit == Get(prop.unit, "")
    IN  CASE prop_id = "status" ->
               <<[EntitySpec("sensor", node_id, prop_id, "Status") EXCEPT
                    !.icon = "mdi:ev-station"]>>
          [] prop_id = "lock-state" ->
               <<[EntitySpec("sensor", node_id, prop_id, "Lock State") EXCEPT
                    !.icon = "mdi:lock"]>>
          [] prop_id = "advertised-current" ->
               <<Measured(node_id, prop_id, "Advertised Current", "current",
                          "measurement", "A")>>
          [] prop_id \in VendorProperties -> VendorProperty(node_id, prop_id)
          [] prop_id = "part-number" ->
               <<DiagnosticSensor(node_id, prop_id, "Part Number")>>
          [] OTHER ->
               IF IsPower(unit, prop_id)
               THEN <<PowerSpec(node_id, prop_id, Humanize(prop_id), unit)>>
               ELSE <<>>

\* _map_pcs_properties, one turn of its loop
MapPcsProperty(node_id, prop) ==
    LET prop_id == prop.id
        datatype == Get(prop.datatype, "")
        unit == Get(prop.unit, "")
        name == Humanize(prop_id)
    IN  IF datatype = "boolean"
        THEN <<Diagnostic(EntitySpec("binary_sensor", node_id, prop_id,
                                     name))>>
        ELSE IF unit = "A"
        THEN <<Diagnostic(Measured(node_id, prop_id, name, "current",
                                   "measurement", "A"))>>
        ELSE IF datatype = "enum"
        THEN <<Diagnostic(EntitySpec("sensor", node_id, prop_id, name))>>
        ELSE <<>>

----------------------------------------------------------------------------
(* node_mappers.py: entities_from_description *)

\* _NODE_TYPE_MAPPERS
NodeTypeMappers ==
    [t \in {"energy.ebus.device.distribution-enclosure.core",
            "energy.ebus.device.circuit",
            "energy.ebus.device.power-flows",
            "energy.ebus.device.lugs.upstream",
            "energy.ebus.device.lugs.downstream",
            "energy.ebus.device.bess",
            "energy.ebus.device.pv",
            "energy.ebus.device.evse",
            "energy.ebus.device.pcs"} |->
        CASE t = "energy.ebus.device.distribution-enclosure.core" ->
               "_map_core_properties"
          [] t = "energy.ebus.device.circuit" -> "_map_circuit_properties"
          [] t = "energy.ebus.device.power-flows" ->
               "_map_power_flow_properties"
          [] t = "energy.ebus.device.lugs.upstream" -> "_map_lug_properties"
          [] t = "energy.ebus.device.lugs.downstream" -> "_map_lug_properties"
          [] t = "energy.ebus.device.bess" -> "_map_bess_properties"
          [] t = "energy.ebus.device.pv" -> "_map_pv_properties"
          [] t = "energy.ebus.device.evse" -> "_map_evse_properties"
          [] t = "energy.ebus.device.pcs" -> "_map_pcs_properties"]

\* util.py: _SUB_DEVICE_TYPES and _NODE_TYPE_LABELS
SubDeviceTypes ==
    {"energy.ebus.device.circuit", "energy.ebus.device.bess",
     "energy.ebus.device.pv", "energy.ebus.device.evse",
     "energy.ebus.device.power-flows"}

NodeTypeLabel(node_type) ==
    CASE node_type = "energy.ebus.device.circuit" -> "Circuit"
      [] node_type = "energy.ebus.device.bess" -> "Battery Storage"
      [] node_type = "energy.ebus.device.pv" -> "Solar PV"
      [] node_type = "energy.ebus.device.evse" -> "EV Charger"
      [] node_type = "energy.ebus.device.power-flows" -> "Site Metering"

\* a slip: a node type without a rule set falls back to the generic rules
\* of the power flows
MapperOrGeneric(node_type) ==
    IF node_type \in DOMAIN NodeTypeMappers THEN NodeTypeMappers[node_type]
    ELSE "_map_power_flow_properties"

\* _NODE_TYPE_MAPPERS.get(node_type)
MapperOf(node_type) ==
    IF node_type \in DOMAIN NodeTypeMappers THEN NodeTypeMappers[node_type]
    ELSE None

\* one turn of the loop of the mapper chosen
MapProperty(mapper, node_id, prop) ==
    CASE mapper = "_map_core_properties" -> MapCoreProperty(node_id, prop)
      [] mapper = "_map_circuit_properties" -> MapCircuitProperty(node_id, prop)
      [] mapper = "_map_power_flow_properties" ->
           MapPowerFlowProperty(node_id, prop)
      [] mapper = "_map_lug_properties" -> MapLugProperty(node_id, prop)
      [] mapper = "_map_bess_properties" -> MapBessProperty(node_id, prop)
      [] mapper = "_map_pv_properties" -> MapPvProperty(node_id, prop)
      [] mapper = "_map_evse_properties" -> MapEvseProperty(node_id, prop)
      [] mapper = "_map_pcs_properties" -> MapPcsProperty(node_id, prop)

\* mapper(node_id, properties): specs = [], then the loop over
\* properties.items() in their order
RECURSIVE ApplyMapper(_, _, _)
ApplyMapper(mapper, node_id, properties) ==
    IF properties = <<>> THEN <<>>
    ELSE ApplyMapper(mapper, node_id,
                     SubSeq(properties, 1, Len(properties) - 1))
         \o MapProperty(mapper, node_id, properties[Len(properties)])

\* the serial number the bridge was built with, and
\* panel.serial_number.rsplit("-", 1)[-1]
PanelSerial == "nt-2024-a1b2c"

ShortSerial ==
    LET parts == Split(PanelSerial, "-") IN parts[Len(parts)]

\* the device name stamped on the descriptors of a sub-device node
DeviceName(node_type, node_id) ==
    IF node_type = "energy.ebus.device.circuit"
    THEN LET circuit_name == GetPropertyValue(Key(node_id))
         IN  IF circuit_name = None \/ circuit_name = ""
             THEN "Circuit " \o Prefix(node_id, 6)
             ELSE circuit_name
    ELSE ShortSerial \o " " \o NodeTypeLabel(node_type)

\* one turn of the loop over nodes.items(): what specs.extend appends
MapNode(node) ==
    LET properties == node.properties
        node_type == Get(node.type, "")
        mapper == MapperOf(node_type)
    IN  IF properties = <<>> THEN <<>>
        ELSE IF mapper = None THEN <<>>
        ELSE LET new_specs == ApplyMapper(mapper, node.id, properties)
             IN  IF node_type \in SubDeviceTypes
                 THEN [i \in 1..Len(new_specs) |->
                         [new_specs[i] EXCEPT
                            !.node_type = node_type,
                            !.device_name = DeviceName(node_type, node.id)]]
                 ELSE new_specs

\* the loop over the nodes in the order of the document
RECURSIVE MapNodes(_)
MapNodes(nodes) ==
    IF nodes = <<>> THEN <<>>
    ELSE MapNodes(SubSeq(nodes, 1, Len(nodes) - 1)) \o MapNode(nodes[Len(nodes)])

\* a slip: the list specs is kept between calls, so a call returns what the
\* call before it returned with its own descriptors behind
EntitiesFromDescriptionKeepsList(description_arg) ==
    entity_specs.specs \o MapNodes(description_arg)

\* entities_from_description(description, panel=panel); the document is the
\* sequence of its nodes
EntitiesFromDescription(description_arg) == MapNodes(description_arg)

----------------------------------------------------------------------------
(* The schema documents the mapper is called with, and its two call sites
   in async_setup_entry *)

Node(id, type, properties) ==
    [id |-> id, type |-> type, properties |-> properties]

Plain(id) == Prop(id, None, None, None, FALSE)
WithUnit(id, unit) == Prop(id, unit, "float", None, FALSE)

\* the nodes the documents are made of; a document holds each id once
NodePool ==
    { Node("core", "energy.ebus.device.distribution-enclosure.core",
           <<Prop("door", None, "enum", "UNKNOWN,OPEN,CLOSED", FALSE),
             Plain("software-version"),
             Prop("dominant-power-source", None, "enum",
                  "GRID, BATTERY,,NONE", TRUE),
             WithUnit("l1-voltage", "V"),
             Plain("something")>>),
      Node("c1", "energy.ebus.device.circuit",
           <<Prop("relay", None, "enum", "OPEN,CLOSED", TRUE),
             Prop("shed-priority", None, "enum",
                  "MUST_HAVE,NICE_TO_HAVE,NON_ESSENTIAL", TRUE),
             WithUnit("active-power", "kW"),
             WithUnit("exported-energy", "Wh"),
             WithUnit("imported-energy", "Wh"),
             Prop("always-on", None, "boolean", None, FALSE),
             Plain("something")>>),
      Node("c2", "energy.ebus.device.circuit",
           <<WithUnit("imported-energy", "Wh"),
             WithUnit("active-power", "W"),
             WithUnit("exported-energy", "Wh"),
             WithUnit("current", "A")>>),
      Node("c2", "energy.ebus.device.circuit", <<>>),
      Node("power-flows", "energy.ebus.device.power-flows",
           <<WithUnit("pv", "W"), WithUnit("grid-energy", None),
             Plain("site_mode")>>),
      Node("upstream-lug", "energy.ebus.device.lugs.upstream",
           <<WithUnit("imported-energy", "Wh"),
             WithUnit("exported-energy", "Wh"),
             WithUnit("active-power", "kW"),
             WithUnit("l1-current", "A"),
             Plain("feed")>>),
      Node("downstream-lug", "energy.ebus.device.lugs.downstream",
           <<WithUnit("exported-energy", "Wh"),
             WithUnit("imported-energy", "Wh"),
             WithUnit("active-power", "W"),
             WithUnit("l1-current", "A"),
             Plain("something")>>),
      Node("lugs-main", "energy.ebus.device.lugs.upstream",
           <<WithUnit("imported-energy", "Wh"),
             WithUnit("exported-energy", "Wh")>>),
      Node("bess", "energy.ebus.device.bess",
           <<WithUnit("soc", "%"), Plain("nameplate-capacity"),
             WithUnit("power-w", "W"), Plain("feed"), Plain("something")>>),
      Node("pv", "energy.ebus.device.pv",
           <<Plain("vendor-name"), WithUnit("nameplate-capacity", "W"),
             WithUnit("lifetime-energy", None), Plain("something")>>),
      Node("evse", "energy.ebus.device.evse",
           <<Plain("status"), Plain("lock-state"),
             WithUnit("advertised-current", "A"),
             WithUnit("charging-power", None), Plain("something")>>),
      Node("pcs", "energy.ebus.device.pcs",
           <<Prop("enabled", None, "boolean", None, FALSE),
             Prop("import-limit", "A", "float", None, FALSE),
             Prop("mode", None, "enum", "A,B", FALSE),
             Prop("something", None, "string", None, FALSE)>>),
      Node("unknown-thing", "mystery",
           <<Prop("something", None, "string", None, FALSE),
             WithUnit("active-power", "W")>>),
      Node("untyped", None, <<WithUnit("active-power", "W")>>) }

\* the documents: sequences of nodes of the pool with distinct ids
SchemaDocs ==
    UNION {{d \in [1..n -> NodePool] :
               \A i, j \in 1..n : i # j => d[i].id # d[j].id} : n \in 0..MaxNodes}

\* the first call, async_setup_entry's
\* entity_specs = entities_from_description(description, panel=panel)
MapCall ==
    /\ ~entity_specs.returned
    /\ entity_specs' = [returned |-> TRUE,
                        specs |-> EntitiesFromDescription(schema_doc)]
    /\ UNCHANGED <<sensorVars, panelVars, transportVars, loopVars, callerVars,
                   setupVars, hostVars, schema_doc, entity_specs_again,
                   dev_reg, service_call, attr_native_unit_of_measurement,
                   attr_options, attr_current_option>>

\* a later call, the ready callback's
\* refreshed = entities_from_description(panel.description or {}, panel=panel)
MapCallAgain ==
    /\ entity_specs.returned
    /\ ~entity_specs_again.returned
    /\ entity_specs_again' = [returned |-> TRUE,
                              specs |-> EntitiesFromDescription(schema_doc)]
    /\ UNCHANGED <<sensorVars, panelVars, transportVars, loopVars, callerVars,
                   setupVars, hostVars, schema_doc, entity_specs, dev_reg,
                   service_call, attr_native_unit_of_measurement,
                   attr_options, attr_current_option>>

\* the setup as it reaches its mapping step: the bridge started, the device
\* discovered and its description received, the names of the circuits
\* received or not; schema_doc, one of docs, is the content of the
\* description
MapperStart(docs) ==
    /\ SensorIdle
    /\ controller = "ctrl"
    /\ device = "dev"
    /\ available = TRUE
    /\ description_received = TRUE
    /\ device_ready = TRUE
    /\ property_callbacks = EmptyMap
    /\ availability_callbacks = <<>>
    /\ ready_callbacks = <<>>
    /\ phase = "started"
    /\ transport_alive = TRUE
    /\ dev_state = "ready"
    /\ dev_description = "d2"
    /\ dev_props \in {f \in [AllKeys -> {None, "Kitchen"}] : f[EntityKey] = None}
    /\ tpend = NoPend
    /\ tcount = 0
    /\ queue = <<>>
    /\ cur = NoDispatch
    /\ handles = EmptyBag
    /\ pc = "map"
    /\ description = "d2"
    /\ missing = <<>>
    /\ idx = 0
    /\ events = {}
    /\ names_ok = (IF \A k \in Keys : dev_props[k] # None THEN "true"
                   ELSE "false")
    /\ result = None
    /\ mapped = FALSE
    /\ registered = FALSE
    /\ platforms = FALSE
    /\ warnings = (IF names_ok = "true" THEN {} ELSE {"names"})
    /\ nw_before = [k \in Keys |-> <<>>]
    /\ schema_doc \in docs
    /\ entity_specs = NoSpecs
    /\ entity_specs_again = NoSpecs
    /\ dev_reg = NoRegistry
    /\ service_call = NoCall
    /\ attr_native_unit_of_measurement = None
    /\ attr_options = <<>>
    /\ attr_current_option = None

MapperInit == MapperStart(SchemaDocs) /\ HostIdle

MapperNext == MapCall \/ MapCallAgain

SpecMapper == MapperInit /\ [][MapperNext]_vars

----------------------------------------------------------------------------
(* sensor.py: the sensor platform builds its entities from the descriptors
   the mapper returned; the model follows one of them *)

\* the documents of one circuit node
CircuitDocs ==
    {<<node>> : node \in {n \in NodePool : n.type = "energy.ebus.device.circuit"}}

\* the model's word for an attribute that is None
OrNone(value) == IF value = None THEN "none" ELSE value

\* SpanEbusSensor(panel, spec) for a descriptor of the sensor platform
SensorFromSpec ==
    /\ ent_phase = "undefined"
    /\ entity_specs.returned
    /\ \E i \in 1..Len(entity_specs.specs) :
          LET spec == entity_specs.specs[i]
          IN  /\ spec.platform = "sensor"
              /\ ent_phase' = "constructed"
              /\ property_id' = spec.property_id
              /\ attr_unique_id' =
                    MakeUniqueId(PanelSerial, spec.node_id, spec.property_id)
              /\ attr_device_class' = OrNone(spec.device_class)
              /\ attr_state_class' = OrNone(spec.state_class)
              /\ attr_native_unit_of_measurement' = spec.native_unit
              /\ spec_negate' = spec.negate
    /\ UNCHANGED <<attr_native_value, attr_extra_state_attributes,
                   log_warnings, delivered, panelVars, transportVars,
                   loopVars, callerVars, setupVars, spec_source_property_id,
                   commands, configured, leaked, schema_doc, entity_specs,
                   entity_specs_again, dev_reg, service_call, attr_options,
                   attr_current_option>>

\* a value of the entity's property is handed to _update_from_value
PlatformUpdate ==
    /\ ent_phase = "constructed"
    /\ \E value \in WireValues : UpdateFromValue(value)

PlatformInit ==
    /\ MapperStart(CircuitDocs)
    /\ ent_phase = "undefined"
    /\ spec_source_property_id = None
    /\ attr_unique_id = MakeUniqueId(PanelSerial, "", "")
    /\ commands = NoCommands
    /\ configured = TRUE
    /\ leaked = 0

PlatformNext == MapCall \/ SensorFromSpec \/ PlatformUpdate

SpecPlatform == PlatformInit /\ [][PlatformNext]_vars

----------------------------------------------------------------------------
(* select.py: the select entity *)

\* the entry loaded: the bridge started, the device ready, nothing queued;
\* the names of the circuits received or not
LoadedEntry ==
    /\ controller = "ctrl"
    /\ device = "dev"
    /\ available = TRUE
    /\ description_received = TRUE
    /\ device_ready = TRUE
    /\ property_callbacks = EmptyMap
    /\ availability_callbacks = <<>>
    /\ ready_callbacks = <<>>
    /\ phase = "started"
    /\ transport_alive = TRUE
    /\ dev_state = "ready"
    /\ dev_description = "d2"
    /\ dev_props \in {f \in [AllKeys -> {None, "Kitchen"}] : f[EntityKey] = None}
    /\ tpend = NoPend
    /\ tcount = 0
    /\ queue = <<>>
    /\ cur = NoDispatch
    /\ handles = EmptyBag
    /\ pc = "loaded"
    /\ description = "d2"
    /\ missing = <<>>
    /\ idx = 0
    /\ events = {}
    /\ names_ok = (IF \A k \in Keys : dev_props[k] # None THEN "true"
                   ELSE "false")
    /\ result = "ok"
    /\ mapped = TRUE
    /\ registered = TRUE
    /\ platforms = TRUE
    /\ warnings = (IF names_ok = "true" THEN {} ELSE {"names"})
    /\ nw_before = [k \in Keys |-> <<>>]

\* the descriptors of the select platform among those of the pool's nodes
SelectSpecs ==
    UNION {{MapNode(node)[i] : i \in
               {k \in 1..Len(MapNode(node)) :
                   MapNode(node)[k].platform = "select"}} : node \in NodePool}

\* the values the panel publishes for an enumerated property
SelectWire == {"MUST_HAVE", "NICE_TO_HAVE", "GRID", "UNKNOWN_VALUE"}

\* a slip: a value outside the options is logged and dropped
SelectUpdateFromValueRejects(value) ==
    IF InList(attr_options, value)
    THEN attr_current_option' = value /\ UNCHANGED log_warnings
    ELSE log_warnings' = log_warnings + 1 /\ UNCHANGED attr_current_option

\* SpanEbusSelect._update_from_value: a warning for a value outside the
\* options, the value adopted either way
SelectUpdateFromValue(value) ==
    IF InList(attr_options, value)
    THEN attr_current_option' = value /\ UNCHANGED log_warnings
    ELSE log_warnings' = log_warnings + 1 /\ attr_current_option' = value

\* a value of the select's property is handed to _update_from_value
SelectUpdate ==
    /\ Len(delivered) < MaxReadings
    /\ \E value \in SelectWire :
          /\ delivered' = Append(delivered, value)
          /\ SelectUpdateFromValue(value)
    /\ UNCHANGED <<attr_device_class, attr_state_class, spec_negate,
                   property_id, attr_native_value,
                   attr_extra_state_attributes, panelVars, transportVars,
                   loopVars, callerVars, setupVars, hostVars, schema_doc,
                   entity_specs, entity_specs_again, dev_reg, service_call,
                   attr_native_unit_of_measurement, attr_options>>

\* SpanEbusSelect(panel, spec) built for one of the select descriptors
SelectInit ==
    /\ LoadedEntry
    /\ \E spec \in SelectSpecs :
          /\ property_id = spec.property_id
          /\ attr_unique_id =
                MakeUniqueId(PanelSerial, spec.node_id, spec.property_id)
          /\ attr_options = spec.options
    /\ attr_current_option = None
    /\ attr_device_class = "none"
    /\ attr_state_class = "none"
    /\ spec_negate = FALSE
    /\ attr_native_value = NoValue
    /\ attr_extra_state_attributes = None
    /\ log_warnings = 0
    /\ delivered = <<>>
    /\ ent_phase = "constructed"
    /\ spec_source_property_id = None
    /\ commands = NoCommands
    /\ configured = TRUE
    /\ leaked = 0
    /\ schema_doc = <<>>
    /\ entity_specs = NoSpecs
    /\ entity_specs_again = NoSpecs
    /\ dev_reg = NoRegistry
    /\ service_call = NoCall
    /\ attr_native_unit_of_measurement = None

SelectNext == SelectUpdate

SpecSelect == SelectInit /\ [][SelectNext]_vars

----------------------------------------------------------------------------
(* sensor.py: the feed sensor, and the names of the circuits it refers to
   arriving on the device *)

\* the names the panel publishes for a circuit
NameWire == {"Kitchen", "Garage"}

\* the feed property is published: its value is handed to
\* _update_from_value
FeedUpdate ==
    \E value \in TextWire : UpdateFromValue(value)

\* a circuit's name is published: the device stores it ...
FeedNameStore ==
    /\ tcount < MaxTransport
    /\ tpend = NoPend
    /\ \E key \in Keys, name \in NameWire : TStore(key, name)
    /\ UNCHANGED <<sensorVars, setupVars, hostVars, toolVars>>

\* ... and the property-changed callback runs for it
FeedNameNotify ==
    /\ TNotify
    /\ UNCHANGED <<sensorVars, setupVars, hostVars, toolVars>>

\* the sensor of the feed property of the battery, added and without a
\* value yet
FeedInit ==
    /\ LoadedEntry
    /\ SensorIdle
    /\ ent_phase = "added"
    /\ spec_source_property_id = None
    /\ attr_unique_id = MakeUniqueId(PanelSerial, "bess", "feed")
    /\ commands = NoCommands
    /\ configured = TRUE
    /\ leaked = 0
    /\ ToolIdle

FeedNext == FeedUpdate \/ FeedNameStore \/ FeedNameNotify

SpecFeed == FeedInit /\ [][FeedNext]_vars

----------------------------------------------------------------------------
(* Claims about the timeouts of the setup (SpecSetup) *)

\* the waits this setup has entered so far; the API client's timeout is in
\* force throughout
WaitsEntered ==
    {"api"}
    \cup (IF pc # "idle" THEN {"description_received"} ELSE {})
    \cup (IF pc \notin {"idle", "wait_schema", "abort_stop", "not_ready"}
          THEN {"device_ready"} ELSE {})
    \cup (IF pc \in {"nw_check", "nw_register", "nw_recheck", "nw_gather",
                     "nw_await"} \/ names_ok # None
          THEN {"circuit_names"} ELSE {})

\* the timeouts of the waits entered increase along the sequence order
Increasing(order) ==
    \A i, j \in 1..Len(order) :
        (i < j /\ order[i] \in WaitsEntered /\ order[j] \in WaitsEntered)
            => TimeoutOf(order[i]) < TimeoutOf(order[j])

\* C22 as claimed: the schema wait has the shortest timeout, then the name
\* wait, then the API calls, then the ready wait.
C22_OrderAsClaimed ==
    Increasing(<<"description_received", "circuit_names", "api",
                 "device_ready">>)

\* C22 amended: the name wait has the shortest timeout, then the API calls,
\* then the schema wait, then the ready wait.
C22_TimeoutOrder ==
    Increasing(<<"circuit_names", "api", "description_received",
                 "device_ready">>)

\* a setup whose schema wait ended in time and whose ready wait and name
\* wait both ended by their timeouts
C22_Witness ==
    /\ pc = "loaded"
    /\ description # None
    /\ names_ok = "false"
    /\ warnings = {"ready", "names"}

----------------------------------------------------------------------------
(* Claims about the schema mapper (SpecMapper) *)

\* the node of the document a descriptor names, and where its property
\* stands in that node
NodeIndex(doc, spec) == CHOOSE n \in 1..Len(doc) : doc[n].id = spec.node_id

PropertyIndex(doc, spec) ==
    LET properties == doc[NodeIndex(doc, spec)].properties
    IN  CHOOSE k \in 1..Len(properties) : properties[k].id = spec.property_id

\* the descriptor names a node of the document and a property of that node
InDocument(doc, spec) ==
    \E n \in 1..Len(doc) :
        /\ doc[n].id = spec.node_id
        /\ \E k \in 1..Len(doc[n].properties) :
              doc[n].properties[k].id = spec.property_id

\* the descriptors stand in the order of the document: node order, then
\* property order within the node
InDocumentOrder(doc, specs) ==
    \A i, j \in 1..Len(specs) :
        i < j =>
            /\ InDocument(doc, specs[i])
            /\ InDocument(doc, specs[j])
            /\ \/ NodeIndex(doc, specs[i]) < NodeIndex(doc, specs[j])
               \/ /\ NodeIndex(doc, specs[i]) = NodeIndex(doc, specs[j])
                  /\ PropertyIndex(doc, specs[i]) < PropertyIndex(doc, specs[j])

\* a call of the mapper returns in this step
MapperReturns ==
    \/ entity_specs'.returned /\ ~entity_specs.returned
    \/ entity_specs_again'.returned /\ ~entity_specs_again.returned

Mappable(node) ==
    /\ node.properties # <<>>
    /\ node.type \in DOMAIN NodeTypeMappers

\* C24: once the mapper has returned, no descriptor names a node whose type
\* has no rule set or which has no properties, and every descriptor names a
\* node of the document whose type has a rule set and a property of that
\* node.
C24_OnlyKnownNodesMapped ==
    entity_specs.returned =>
        /\ \A n \in 1..Len(schema_doc) :
              ~Mappable(schema_doc[n]) =>
                  \A i \in 1..Len(entity_specs.specs) :
                      entity_specs.specs[i].node_id # schema_doc[n].id
        /\ \A i \in 1..Len(entity_specs.specs) :
              /\ InDocument(schema_doc, entity_specs.specs[i])
              /\ Mappable(schema_doc[NodeIndex(schema_doc,
                                               entity_specs.specs[i])])

\* the mapper has returned for a document holding a node of an unknown type
\* with properties, then a circuit: descriptors for the circuit only
C24_Witness ==
    /\ entity_specs.returned
    /\ Len(schema_doc) = 2
    /\ schema_doc[1].type = "mystery"
    /\ schema_doc[1].properties # <<>>
    /\ schema_doc[2].id = "c1"
    /\ entity_specs.specs # <<>>
    /\ \A i \in 1..Len(entity_specs.specs) :
          entity_specs.specs[i].node_id = "c1"

\* the descriptors of the named property of the nodes of the given types
SpecsOf(types, prop_id) ==
    {entity_specs.specs[i] : i \in
        {k \in 1..Len(entity_specs.specs) :
            /\ entity_specs.specs[k].property_id = prop_id
            /\ \E n \in 1..Len(schema_doc) :
                  /\ schema_doc[n].id = entity_specs.specs[k].node_id
                  /\ schema_doc[n].type \in types}}

\* the nodes of the given types of the document that declare the property
Declaring(types, prop_id) ==
    {n \in 1..Len(schema_doc) :
        /\ schema_doc[n].type \in types
        /\ \E k \in 1..Len(schema_doc[n].properties) :
              schema_doc[n].properties[k].id = prop_id}

\* every declaring node of the types has a descriptor for the property, and
\* all descriptors of the property carry the name
Named(types, prop_id, name) ==
    /\ \A n \in Declaring(types, prop_id) :
          \E spec \in SpecsOf(types, prop_id) : spec.node_id = schema_doc[n].id
    /\ \A spec \in SpecsOf(types, prop_id) : spec.name = name

\* C25: once the mapper has returned, every circuit node declaring
\* exported-energy has a descriptor for it named "Energy", and every circuit
\* node declaring imported-energy has one named "Energy Returned".
C25_CircuitEnergyNames ==
    entity_specs.returned =>
        /\ Named({"energy.ebus.device.circuit"}, "exported-energy", "Energy")
        /\ Named({"energy.ebus.device.circuit"}, "imported-energy",
                 "Energy Returned")

\* the mapper has returned the two energy descriptors of a circuit
C25_Witness ==
    /\ entity_specs.returned
    /\ \E a, b \in 1..Len(entity_specs.specs) :
          /\ entity_specs.specs[a].node_type = "energy.ebus.device.circuit"
          /\ entity_specs.specs[a].property_id = "exported-energy"
          /\ entity_specs.specs[a].name = "Energy"
          /\ entity_specs.specs[b].node_id = entity_specs.specs[a].node_id
          /\ entity_specs.specs[b].property_id = "imported-energy"
          /\ entity_specs.specs[b].name = "Energy Returned"

\* C26 as claimed: lug nodes follow the circuits: on an upstream lug node
\* exported-energy is named "Energy" and imported-energy "Energy Returned",
\* on a downstream lug node "Downstream Energy" and "Downstream Energy
\* Returned".
C26_LugNamesAsClaimed ==
    entity_specs.returned =>
        /\ Named({"energy.ebus.device.lugs.upstream"}, "exported-energy",
                 "Energy")
        /\ Named({"energy.ebus.device.lugs.upstream"}, "imported-energy",
                 "Energy Returned")
        /\ Named({"energy.ebus.device.lugs.downstream"}, "exported-energy",
                 "Downstream Energy")
        /\ Named({"energy.ebus.device.lugs.downstream"}, "imported-energy",
                 "Downstream Energy Returned")

LugTypes == {"energy.ebus.device.lugs.upstream",
             "energy.ebus.device.lugs.downstream"}

\* the descriptors of the property of the lug nodes whose id does, or does
\* not, contain "upstream"
LugSpecs(prop_id, upstream) ==
    {spec \in SpecsOf(LugTypes, prop_id) :
        Contains("upstream", spec.node_id) = upstream}

\* C26 amended: lug nodes name their energies the other way round from
\* circuits, and by the node id: on a lug node whose id contains "upstream"
\* imported-energy is named "Energy" and exported-energy "Energy Returned";
\* on any other lug node imported-energy is named "Downstream Energy" and
\* exported-energy "Downstream Energy Returned".  Every lug node declaring
\* one of the two has a descriptor for it.
C26_LugEnergyNames ==
    entity_specs.returned =>
        /\ \A prop_id \in {"imported-energy", "exported-energy"} :
              \A n \in Declaring(LugTypes, prop_id) :
                  \E spec \in SpecsOf(LugTypes, prop_id) :
                      spec.node_id = schema_doc[n].id
        /\ \A spec \in LugSpecs("imported-energy", TRUE) : spec.name = "Energy"
        /\ \A spec \in LugSpecs("exported-energy", TRUE) :
              spec.name = "Energy Returned"
        /\ \A spec \in LugSpecs("imported-energy", FALSE) :
              spec.name = "Downstream Energy"
        /\ \A spec \in LugSpecs("exported-energy", FALSE) :
              spec.name = "Downstream Energy Returned"

\* the mapper has returned the energy descriptors of an upstream and of a
\* downstream lug node
C26_Witness ==
    /\ entity_specs.returned
    /\ Len(schema_doc) = 2
    /\ schema_doc[1].type = "energy.ebus.device.lugs.upstream"
    /\ schema_doc[2].type = "energy.ebus.device.lugs.downstream"
    /\ LugSpecs("imported-energy", TRUE) # {}
    /\ LugSpecs("exported-energy", TRUE) # {}
    /\ LugSpecs("imported-energy", FALSE) # {}
    /\ LugSpecs("exported-energy", FALSE) # {}

----------------------------------------------------------------------------
(* Claims about the sensors built from the descriptors (SpecPlatform) *)

\* the last value handed to the sensor
LastDelivered == delivered[Len(delivered)]

\* the sensor was built from the active-power descriptor of a circuit node
IsCircuitPowerSensor ==
    /\ ent_phase = "constructed"
    /\ property_id = "active-power"
    /\ schema_doc[1].type = "energy.ebus.device.circuit"
    /\ attr_unique_id = MakeUniqueId(PanelSerial, schema_doc[1].id, property_id)

\* C27: the sensor of a circuit's active-power property has the unit watts
\* whatever unit the schema declares and the negation flag set, and after
\* every numeric wire value v it displays -v.
C27_CircuitPowerWattsNegated ==
    IsCircuitPowerSensor =>
        /\ attr_native_unit_of_measurement = "W"
        /\ spec_negate
        /\ (delivered # <<>> /\ ParseFloat(Chars(LastDelivered)).ok) =>
              attr_native_value =
                  NumV(0 - ParseFloat(Chars(LastDelivered)).n)

\* the schema declares kilowatts for the circuit's active-power, the sensor
\* has received 1000.0 and then -542.3 and displays 542.3 watts
C27_Witness ==
    /\ IsCircuitPowerSensor
    /\ \E k \in 1..Len(schema_doc[1].properties) :
          /\ schema_doc[1].properties[k].id = "active-power"
          /\ schema_doc[1].properties[k].unit = "kW"
    /\ delivered = <<"1000.0", "-542.3">>
    /\ attr_native_value = NumV(5423)
    /\ attr_native_unit_of_measurement = "W"

----------------------------------------------------------------------------
(* Claims about the select entity (SpecSelect) *)

\* C28: after every update the current selection of the select is the last
\* value received, whether or not it is one of the declared options.
C28_SelectAdoptsEveryValue ==
    delivered # <<>> => attr_current_option = LastDelivered

\* the select has received a declared option, then a value outside its
\* option list, has logged one warning and shows the undeclared value
C28_Witness ==
    /\ delivered = <<"MUST_HAVE", "UNKNOWN_VALUE">>
    /\ InList(attr_options, "MUST_HAVE")
    /\ ~InList(attr_options, "UNKNOWN_VALUE")
    /\ log_warnings = 1
    /\ attr_current_option = "UNKNOWN_VALUE"

----------------------------------------------------------------------------
(* Claims about the value formatter of the sensor (SpecSensor) *)

\* the sensor has a numeric device class and has received a value
NumericUpdated ==
    /\ attr_device_class \in NUMERIC_DEVICE_CLASSES
    /\ delivered # <<>>

\* C29: after every update of a numeric sensor, a last value that does not
\* parse as a number leaves the display unknown; a parseable value received
\* first or right after one that did not parse is displayed; and on a sensor
\* that is not a counter the display is the latest parsed value, sign-flipped
\* if the negation flag is set, be it above or below the one before.
C29_FormatterAbsorbsBadValues ==
    NumericUpdated =>
        LET last == Reading(LastDelivered)
            fresh == \/ Len(delivered) = 1
                     \/ ~Reading(delivered[Len(delivered) - 1]).ok
        IN  /\ ~last.ok => attr_native_value = NoValue
            /\ (last.ok /\ (fresh \/ ~IsCounter)) =>
                  attr_native_value = NumV(last.n)

\* a power sensor has displayed 1000.0, turned unknown on a value that is
\* no number, and displays the lower 940.0 that followed
C29_Witness ==
    /\ attr_device_class = "power"
    /\ attr_state_class = "measurement"
    /\ ~spec_negate
    /\ delivered = <<"1000.0", "not-a-number", "940.0">>
    /\ attr_native_value = NumV(9400)

----------------------------------------------------------------------------
(* Claims about the feed sensor (SpecFeed) *)

\* C30: once the feed sensor has received a reference, it displays the
\* current name of the node referred to if the device holds one, and the
\* reference itself otherwise, also after the name arrives or changes later
\* than the reference.
C30_FeedShowsCurrentName ==
    (property_id = "feed" /\ delivered # <<>>) =>
        attr_native_value =
            (IF SensorNameOf(LastDelivered) # None
             THEN StrV(SensorNameOf(LastDelivered))
             ELSE StrV(LastDelivered))

\* C31: once the feed sensor has received a reference and the device holds
\* no name for the latest one, the sensor displays that reference itself and
\* carries no annotation, none left from an earlier reference either.
C31_UnresolvedFeedBare ==
    (/\ property_id = "feed"
     /\ delivered # <<>>
     /\ SensorNameOf(LastDelivered) = None) =>
        /\ attr_native_value = StrV(LastDelivered)
        /\ attr_extra_state_attributes = None

\* the unique id of the entity built from a descriptor
UniqueIdOf(spec) == MakeUniqueId(PanelSerial, spec.node_id, spec.property_id)

\* C39: once the mapper has returned, no two descriptors of its list name the
\* same (node id, property id) pair, and the unique ids built from the
\* serial number, the node id and the property id of the descriptors are
\* pairwise different.
C39_OneDescriptorPerProperty ==
    entity_specs.returned =>
        \A i, j \in 1..Len(entity_specs.specs) :
            i # j =>
                /\ <<entity_specs.specs[i].node_id,
                     entity_specs.specs[i].property_id>> #
                   <<entity_specs.specs[j].node_id,
                     entity_specs.specs[j].property_id>>
                /\ UniqueIdOf(entity_specs.specs[i]) #
                       UniqueIdOf(entity_specs.specs[j])

\* the mapper has returned for a document of two nodes that declare the
\* same property: two descriptors that differ in the node id only
C39_Witness ==
    /\ entity_specs.returned
    /\ \E i, j \in 1..Len(entity_specs.specs) :
          /\ entity_specs.specs[i].node_id # entity_specs.specs[j].node_id
          /\ entity_specs.specs[i].property_id =
                entity_specs.specs[j].property_id
          /\ entity_specs.specs[i].platform = entity_specs.specs[j].platform

(***************************************************************************)
(* __init__.py: _wait_for_circuit_names called on its own, with the node   *)
(* ids of a description that lists two circuits or none                    *)
(***************************************************************************)

NameWaitInit ==
    /\ SensorIdle
    /\ HostIdle
    /\ ToolIdle
    /\ controller = "ctrl"
    /\ device = "dev"
    /\ available = TRUE
    /\ description_received = TRUE
    /\ device_ready = TRUE
    /\ property_callbacks = EmptyMap
    /\ availability_callbacks = <<>>
    /\ ready_callbacks = <<>>
    /\ phase = "started"
    /\ transport_alive = TRUE
    /\ dev_state = "ready"
    /\ dev_description \in {"d0", "d2"}
    /\ dev_props \in {f \in [AllKeys -> {None, "Kitchen"}] : f[EntityKey] = None}
    /\ tpend = NoPend
    /\ tcount = 0
    /\ queue = <<>>
    /\ cur = NoDispatch
    /\ handles = EmptyBag
    /\ pc = "nw_check"
    /\ description = dev_description
    /\ missing = <<>>
    /\ idx = 1
    /\ events = {}
    /\ names_ok = None
    /\ result = None
    /\ mapped = FALSE
    /\ registered = FALSE
    /\ platforms = FALSE
    /\ warnings = {}
    /\ nw_before = [k \in Keys |-> <<>>]

NameWaitNext ==
    \/ NWCheck
    \/ NWRegister
    \/ NWRecheck
    \/ NWAwait
    \/ NWDone
    \/ NWTimeout
    \/ SetupLoopRun
    \/ SetupInvoke
    \/ SetupStore
    \/ SetupNotify

SpecNameWait == NameWaitInit /\ [][NameWaitNext]_vars

(***************************************************************************)
(* Claims about the early return of the name wait (SpecNameWait)           *)
(***************************************************************************)

\* the initial check has looked at its last node id
CheckEnds == pc = "nw_check" /\ pc' # "nw_check"

\* C35: when the initial check finds no requested name missing, also when
\* no name was requested, _wait_for_circuit_names returns True from that
\* check: it registers no subscriber, touches nothing of the bridge or the
\* loop, and never reaches its await.  Only a check that found a name
\* missing goes on to register.
C35_NothingMissingReturnsAtOnce ==
    [][CheckEnds =>
         IF missing' = <<>>
         THEN /\ names_ok' = "true"
              /\ pc' = "map"
              /\ NameWaitHandles' = {}
              /\ events' = {}
              /\ UNCHANGED <<panelVars, loopVars, callerVars>>
         ELSE /\ names_ok' = None
              /\ pc' = "nw_register"]_vars

\* the wait was called with no node id and has returned True
C35_Witness ==
    /\ CircuitNodeIds(description) = <<>>
    /\ pc = "map"
    /\ names_ok = "true"
    /\ handles = EmptyBag

(***************************************************************************)
(* Claims about the property-changed callback (SpecBridge)                 *)
(***************************************************************************)

\* the dispatches of a key that wait in the loop's queue
ScheduledFor(q, key) ==
    {i \in 1..Len(q) : q[i].fn = "_dispatch_property_update" /\ q[i].key = key}

\* C32: a property-changed notification whose key has no subscriber when it
\* arrives is dropped: the loop's queue and every field of the bridge stay as
\* they are.  A notification whose key has a subscriber adds exactly one
\* dispatch of that key and value at the end of the queue, and changes no
\* field of the bridge either.
C32_UnsubscribedNotificationDropped ==
    [][NotifyStep =>
         /\ UNCHANGED <<panelVars, cur, handles, phase>>
         /\ IF GetCallbacks(tpend.key) = <<>>
            THEN UNCHANGED queue
            ELSE /\ Len(queue') = Len(queue) + 1
                 /\ SubSeq(queue', 1, Len(queue)) = queue
                 /\ Cardinality(ScheduledFor(queue', tpend.key)) =
                       Cardinality(ScheduledFor(queue, tpend.key)) + 1
                 /\ queue'[Len(queue')].value = tpend.value]_vars

\* the callback has returned for a key that never had a subscriber while
\* another key has one: nothing is scheduled, the loop has nothing to run
C32_Witness ==
    /\ tpend = NoPend
    /\ queue = <<>>
    /\ cur = NoDispatch
    /\ \E k1, k2 \in Keys :
          /\ k1 # k2
          /\ dev_props[k1] # None
          /\ \A r \in BagToSet(handles) : r.key # k1
          /\ GetCallbacks(k2) # <<>>
          /\ \A r \in BagToSet(handles) : r.calls = 0
          /\ ~device_ready

\* no callback occurs at two places of the list
Distinct(list) ==
    \A i, j \in 1..Len(list) : list[i] = list[j] => i = j

\* C34: whatever has been registered and unregistered, the subscriber list
\* of a (node, property) key never holds the same callback twice.
C34_NoCallbackTwice ==
    \A key \in Keys : Distinct(GetCallbacks(key))

\* the calls that the step has added at the end of the loop's queue
NewlyScheduled == SubSeq(queue', Len(queue) + 1, Len(queue'))

\* C36: a transport callback that changes the availability flag while an
\* availability subscriber is registered schedules a _dispatch_availability
\* carrying the new value, so that the subscribers come to be told of it.
C36_FlagChangeIsDispatched ==
    [][(/\ MessageStep
        /\ available' # available
        /\ availability_callbacks # <<>>) =>
           \E i \in 1..Len(NewlyScheduled) :
               /\ NewlyScheduled[i].fn = "_dispatch_availability"
               /\ NewlyScheduled[i].flag = available']_vars

(***************************************************************************)
(* Claims about the attach and detach of an entity (SpecEntity)            *)
(***************************************************************************)

\* the transport thread is between two messages and the loop has run every
\* call scheduled on it
Drained == tpend = NoPend /\ queue = <<>> /\ cur = NoDispatch

\* C37: however the transport thread interleaves with async_added_to_hass,
\* once the entity is added and the queue has drained, the last value the
\* entity was updated with is the value the device holds for its key: the one
\* the transport delivered last, before, during or after the attach.
C37_NoUpdateLostOnAttach ==
    (ent_phase = "added" /\ Drained /\ GetPropertyValue(OwnKey) # None) =>
        /\ delivered # <<>>
        /\ LastDelivered = GetPropertyValue(OwnKey)
        /\ attr_native_value = NumV(Reading(GetPropertyValue(OwnKey)).n)

\* a value arrived during the attach: it was stored before the entity read
\* the current value and its notification came after the registration, so
\* the entity was updated with it twice; a second value followed
C37_Witness ==
    /\ ent_phase = "added"
    /\ Drained
    /\ tcount = 2
    /\ Len(delivered) = 3
    /\ delivered[1] = delivered[2]
    /\ delivered[2] # delivered[3]

\* the entity's life while the entry is unloaded around it: async_stop of the
\* bridge may come before or after the removal of the entity
DetachNext ==
    \/ EntityConstruct
    \/ EntityAdded
    \/ EntityInitialValue
    \/ EntityRemoved
    \/ EntityLoopRun
    \/ EntityInvoke
    \/ EntityStore
    \/ EntityNotify
    \/ BridgeStopBegin
    \/ BridgeStopEnd

SpecDetach == EntityInit /\ [][DetachNext]_vars

\* no list of the bridge holds a callback of the entity
NoEntitySubscription ==
    /\ \A key \in AllKeys : ~InList(GetCallbacks(key), "_on_value_update")
    /\ ~InList(availability_callbacks, "_on_availability_update")

\* C38: from async_will_remove_from_hass on, the bridge's property and
\* availability lists hold no callback of the entity, and nothing updates
\* the entity any more, whatever is notified for its key; it is so whether
\* the bridge is running, stopping or stopped when the entity is removed.
C38_RemovedEntityLeavesNothing ==
    [][ent_phase' = "removed" =>
         /\ NoEntitySubscription'
         /\ ent_phase = "removed" => UNCHANGED sensorVars]_vars

\* the entity was updated, then removed while the bridge kept running; a
\* different value of its key was notified afterwards and did not reach it
C38_Witness ==
    /\ ent_phase = "removed"
    /\ phase = "started"
    /\ Drained
    /\ delivered # <<>>
    /\ GetPropertyValue(OwnKey) # None
    /\ LastDelivered # GetPropertyValue(OwnKey)

(***************************************************************************)
(* span_panel.py: the identity filter of the transport callbacks.  Two     *)
(* panels publish on the broker; the bridge is configured for PanelSerial. *)
(***************************************************************************)

OtherSerial == "nt-2024-d3e4f"
OtherDevices == {OtherSerial}

\* a slip: the identity of the device is not compared
IsOtherDeviceNever(device_id) == FALSE

\* device.device_id != self.serial_number
IsOtherDevice(device_id) == device_id # PanelSerial

\* _on_device_discovered(device)
DeviceDiscoveredFrom(device_id) ==
    IF IsOtherDevice(device_id) THEN UNCHANGED <<device, available, queue>>
    ELSE OnDeviceDiscovered

\* _on_description_received(device)
DescriptionReceivedFrom(device_id) ==
    IF IsOtherDevice(device_id) THEN UNCHANGED <<device, queue>>
    ELSE OnDescriptionReceived

\* _on_property_changed(device_id, node_id, property_id, value, old_value)
PropertyChangedFrom(device_id, key, value) ==
    IF IsOtherDevice(device_id) THEN UNCHANGED queue
    ELSE OnPropertyChanged(key, value)

\* _on_device_state_changed(device, old_state, new_state)
DeviceStateChangedFrom(device_id, new_state) ==
    IF IsOtherDevice(device_id) THEN UNCHANGED <<available, queue>>
    ELSE OnDeviceStateChanged(new_state)

\* what a message of another panel leaves alone outside the bridge: the
\* transport's object of the panel's own device
OtherMessage ==
    /\ transport_alive
    /\ tpend = NoPend
    /\ tcount < MaxMessages
    /\ tcount' = tcount + 1
    /\ UNCHANGED <<transport_alive, dev_state, dev_description, dev_props,
                   tpend, cur, handles, phase, sensorVars, setupVars,
                   hostVars, toolVars>>

\* the other panel appears on the broker
OtherDiscover ==
    /\ OtherMessage
    /\ Len(queue) + 2 <= MaxQueue
    /\ \E device_id \in OtherDevices : DeviceDiscoveredFrom(device_id)
    /\ UNCHANGED <<controller, description_received, device_ready,
                   property_callbacks, availability_callbacks, ready_callbacks>>

\* the other panel's $description arrives
OtherDescription ==
    /\ OtherMessage
    /\ Len(queue) + 1 <= MaxQueue
    /\ \E device_id \in OtherDevices : DescriptionReceivedFrom(device_id)
    /\ UNCHANGED <<controller, available, description_received, device_ready,
                   property_callbacks, availability_callbacks, ready_callbacks>>

\* the other panel's $state changes
OtherState ==
    /\ OtherMessage
    /\ Len(queue) + 3 <= MaxQueue
    /\ \E device_id \in OtherDevices, new_state \in DeviceStates :
          DeviceStateChangedFrom(device_id, new_state)
    /\ UNCHANGED <<controller, device, description_received, device_ready,
                   property_callbacks, availability_callbacks, ready_callbacks>>

\* the other panel publishes a property, of a node id this panel has too
OtherProperty ==
    /\ OtherMessage
    /\ Len(queue) + 1 <= MaxQueue
    /\ \E device_id \in OtherDevices, key \in Keys :
          PropertyChangedFrom(device_id, key, "Garage")
    /\ UNCHANGED panelVars

\* the panel's own messages
OwnDiscover ==
    /\ tcount < MaxMessages
    /\ \E state \in {"init", "ready"} : TDiscover(state)
    /\ UNCHANGED <<sensorVars, hostVars, toolVars, setupVars>>

OwnDescription ==
    /\ tcount < MaxMessages
    /\ dev_description = None
    /\ TDescription("d1")
    /\ UNCHANGED <<sensorVars, hostVars, toolVars, setupVars>>

OwnState ==
    /\ tcount < MaxMessages
    /\ \E new_state \in DeviceStates : TState(new_state)
    /\ UNCHANGED <<sensorVars, hostVars, toolVars, setupVars>>

OwnStore ==
    /\ tcount < MaxMessages
    /\ \E key \in Keys : TStore(key, "Kitchen")
    /\ UNCHANGED <<sensorVars, hostVars, toolVars, setupVars>>

IdentityNext ==
    \/ BridgeStart
    \/ BridgeRegister
    \/ BridgeLoopRun
    \/ BridgeInvoke
    \/ OwnDiscover
    \/ OwnDescription
    \/ OwnState
    \/ OwnStore
    \/ BridgeNotify
    \/ OtherDiscover
    \/ OtherDescription
    \/ OtherState
    \/ OtherProperty

SpecIdentity == BridgeInit /\ [][IdentityNext]_vars

(***************************************************************************)
(* Claims about the identity filter (SpecIdentity)                         *)
(***************************************************************************)

\* the transport thread handled a message that is not of the panel's own
\* device: the transport's object of that device is as it was
OtherStep ==
    /\ tcount' = tcount + 1
    /\ UNCHANGED <<dev_state, dev_description, dev_props, tpend>>

\* C33: a transport callback for a device other than the configured one
\* changes nothing of the bridge (its device, its availability flag, its
\* gates, its subscriber lists) and schedules nothing on the loop's queue.
C33_OtherDeviceIgnored ==
    [][OtherStep => UNCHANGED <<panelVars, queue, cur, handles, phase>>]_vars

\* the panel's own device has not appeared, the other panel has sent
\* messages, one of them for a key that has a subscriber: the bridge holds no
\* device and the loop has nothing to run
C33_Witness ==
    /\ dev_state = None
    /\ tcount >= 2
    /\ phase = "started"
    /\ \A key \in Keys : GetCallbacks(key) # <<>>
    /\ device = None
    /\ ~available
    /\ queue = <<>>
    /\ cur = NoDispatch

=============================================================================
